---- MODULE Spec2Model ----
(***************************************************************************)
(* Model of the collaborative task pipeline of the backend:                *)
(*   CollaborationService (collaborationService.ts) and the team member    *)
(*   operations of TeamService (teamService.ts), over the Supabase tables  *)
(*   teams, team_members, collaborative_tasks, task_assignments and        *)
(*   agent_contributions.  Every awaited database or provider call is one  *)
(*   step of the handler that makes it.                                    *)
(***************************************************************************)
EXTENDS Integers, Sequences, FiniteSets, TLC

(* ------------------------------ bounds -------------------------------- *)
MaxTasks == 2          \* tasks created in SpecCreate
MaxExecTasks == 1      \* tasks created in SpecTask
MaxDecomposeTasks == 1 \* tasks created in SpecDecompose
MaxExecs == 2          \* execute requests ever started in SpecTask
MaxPipelineTasks == 1  \* tasks created in SpecPipeline
MaxPipelineExecs == 1  \* execute requests ever started in SpecPipeline
MaxMemberOps == 1      \* addTeamMember / removeTeamMember calls ever made
MaxLLMEntries == 2     \* entries in the decomposition array of the LLM
MaxVersionTasks == 3   \* tasks created in SpecVersion
MaxTeamTasks == 1      \* tasks created in SpecTeam
MaxFeedbackTasks == 1  \* tasks created in SpecFeedback
MaxLLMSteps == 2       \* LLM steps made in SpecProvider
MaxChats == 2          \* chatWithAgent requests, which may overlap
MaxTokens == 2         \* tokens the provider streams in one chat
MaxPosts == 1          \* POST /api/conversations/message requests
MaxSelects == 3        \* times the user selects a group in the Collab page
MaxSends == 9          \* messages a user sends to the agent in SpecHistory
MaxDeleteTasks == 2    \* tasks created in SpecDelete
MaxDeleteExecs == 1    \* execute requests ever started in SpecDelete
MaxAttachments == 1    \* rows of task_attachments ever inserted
MaxRaceTasks == 1      \* tasks created in SpecRace
MaxRaceExecs == 2      \* execute requests ever started in SpecRace
MaxGroups == 2         \* groups ever inserted, the first one included
MaxGroupMessages == 2  \* rows of group_messages ever inserted
MaxPosters == 2        \* such requests without conversationId, which may overlap

(* ------------------------------ universe ------------------------------ *)
Users == {"u1", "u2"}
AgentIds == {"a1", "a2"}
TeamId == "t1"
Null == "null"
Undefined == "undefined"

\* rows of the agents table that the joins read (name, configuration)
agents ==
  [a \in AgentIds |->
     IF a = "a1" THEN [name |-> "Ann", configuration |-> [model |-> "gpt-4"]]
                 ELSE [name |-> "Bob", configuration |-> [model |-> Null]]]

\* a team_members row as createTeam / addTeamMember insert it
MemberRow(id, agentId, role, isPrimary) ==
  [id |-> id, team_id |-> TeamId, agent_id |-> agentId, role |-> role,
   is_primary_agent |-> isPrimary]

\* the team a createTeam call with two members has left in team_members
TwoMembers == {MemberRow(1, "a1", "lead", TRUE), MemberRow(2, "a2", "dev", FALSE)}

\* member lists a createTeam call can have left in team_members
InitMemberSets ==
  { {},
    {MemberRow(1, "a1", "lead", TRUE)},
    TwoMembers,
    {MemberRow(1, "a2", "dev", FALSE), MemberRow(2, "a1", "lead", FALSE)},
    {MemberRow(1, "a1", "lead", FALSE), MemberRow(2, "a1", "dev", FALSE)} }

\* the teams among them without ties in the order of their members
OrderedMemberSets ==
  { {}, {MemberRow(1, "a1", "lead", TRUE)}, TwoMembers }

(* ------------------------------ helpers ------------------------------- *)
Range(s) == {s[i] : i \in 1..Len(s)}

SeqsUpTo(S, n) == UNION {[1..k -> S] : k \in 0..n}

\* all orders in which a select may return the rows S when every row with
\* key(r) = TRUE has to come before every row with key(r) = FALSE
\* (.order('is_primary_agent', { ascending: false }); ties are unordered)
PrimaryFirstOrders(S) ==
  {s \in [1..Cardinality(S) -> S] :
     /\ \A r \in S : \E i \in 1..Cardinality(S) : s[i] = r
     /\ \A i, j \in 1..Cardinality(S) :
          (i < j) => ~(~s[i].is_primary_agent /\ s[j].is_primary_agent)}

\* JS property access: a property the object does not have reads undefined
Prop(obj, f) == IF f \in DOMAIN obj THEN obj[f] ELSE Undefined

(* ------------------------------ state --------------------------------- *)
VARIABLES
  teams,                \* table teams: id -> row
  team_members,         \* table team_members: set of rows
  collaborative_tasks,  \* table collaborative_tasks: id -> row
  task_assignments,     \* table task_assignments: set of rows
  agent_contributions,  \* table agent_contributions: rows in created_at order
  nextTask,             \* next fresh task id (crypto.randomUUID)
  nextMember,           \* next fresh team_members id
  memberOps,            \* number of member operations made so far
  execCount,            \* number of execute requests started so far
  creator,              \* the createCollaborativeTask call in progress
  exec,                 \* the executeCollaborativeTask call in progress
  resource_access,      \* table resource_access: set of rows
  share_requests,       \* table share_requests: set of rows
  feedback,             \* column feedback of collaborative_tasks: id -> value
  llm,                  \* the LLM step in progress and the calls it has made
  group,                \* table group: id -> row
  group_members,        \* table group_members: set of rows
  group_messages,       \* table group_messages: set of rows
  handler,              \* the group / upload route handler in progress
  nextGroup,            \* number of the next group row (serial id)
  messages,             \* table messages: rows in created_at order
  metrics,              \* column metrics of agents: id -> totalInteractions
  chats,                \* the chatWithAgent calls in progress
  conversations,        \* table conversations: rows in created_at order
  posts,                \* the POST /api/conversations/message calls in progress
  other,                \* an executeCollaborativeTask call suspended at an await
  task_attachments,     \* table task_attachments: set of rows
  deleter,              \* the deleteTask call in progress
  turn,                 \* the message being sent and the chatWithAgent call for it
  page                  \* the Collab page: its state, its effects, its channels

dbVars == <<teams, team_members, collaborative_tasks, task_assignments,
            agent_contributions>>
\* the state of the team and task services
coreVars == <<teams, team_members, collaborative_tasks, task_assignments,
              agent_contributions, nextTask, nextMember, memberOps, execCount,
              creator, exec>>
\* the state that the team member and task pipeline operations leave alone
shareVars == <<resource_access, share_requests>>
groupVars == <<group, group_members, group_messages, handler, nextGroup>>
chatVars == <<messages, metrics, chats>>
postVars == <<conversations, posts>>
deleteVars == <<task_attachments, deleter>>
exceptOther == <<shareVars, feedback, llm, groupVars, chatVars, postVars, deleteVars,
                 turn, page>>
exceptDelete == <<shareVars, feedback, llm, groupVars, chatVars, postVars, other,
                  turn, page>>
auxVars == <<exceptOther, other>>
\* what recordTaskFeedback, the LLM steps, the group and upload handlers and
\* the chat leave alone
exceptFeedback == <<page, turn, deleteVars, coreVars, shareVars, llm, groupVars, chatVars, postVars, other>>
exceptLLM == <<page, turn, deleteVars, coreVars, shareVars, feedback, groupVars, chatVars, postVars, other>>
exceptPage == <<turn, deleteVars, coreVars, shareVars, feedback, llm, chatVars, postVars, other>>
exceptGroup == <<exceptPage, page>>
exceptHandler == <<exceptGroup, nextGroup>>
exceptChat == <<page, turn, deleteVars, coreVars, shareVars, feedback, llm, groupVars, postVars, other>>
exceptPost == <<page, turn, deleteVars, coreVars, shareVars, feedback, llm, groupVars, metrics, chats, other>>
exceptTurn == <<page, deleteVars, coreVars, shareVars, feedback, llm, groupVars, metrics, chats,
                postVars, other>>
vars == <<coreVars, auxVars>>

\* locals of createCollaborativeTask
CreatorIdle ==
  [pc |-> "idle", taskId |-> 0, teamId |-> TeamId, userId |-> "u1",
   subtasks |-> <<>>, i |-> 0, outcome |-> "none"]

InitTables ==
  /\ teams = [t \in {TeamId} |-> [id |-> TeamId, user_id |-> "u1", status |-> "ACTIVE"]]
  /\ collaborative_tasks = <<>>
  /\ task_assignments = {}
  /\ agent_contributions = <<>>
  /\ nextTask = 1
  /\ nextMember = 3
  /\ memberOps = 0
  /\ execCount = 0
  /\ creator = CreatorIdle

\* no LLM step in progress; history lists the steps that have ended
LLMIdle ==
  [pc |-> "idle", step |-> "none", model |-> "none", log |-> <<>>,
   history |-> <<>>]

\* locals of chatWithAgent; events is what was written to res
ChatIdle ==
  [pc |-> "idle", agentId |-> "a1", skipUserMessage |-> FALSE,
   assistantText |-> <<>>, events |-> <<>>, ended |-> FALSE, json |-> FALSE,
   currentTotal |-> 0, metricsError |-> FALSE]

\* no message stored, no interaction counted, no chat request made
ChatInit ==
  /\ messages = <<>>
  /\ metrics = [a \in AgentIds |-> 0]
  /\ chats = [c \in 1..MaxChats |-> ChatIdle]

\* locals of POST /api/conversations/message; lookupError records that the
\* select of the existing conversation returned an error
PostIdle ==
  [pc |-> "idle", userId |-> "u1", agentId |-> "a1", convId |-> 0,
   lookupError |-> FALSE, status |-> 0]

\* no conversation exists, no request was made
PostInit ==
  /\ conversations = <<>>
  /\ posts = [p \in 1..MaxPosters |-> PostIdle]

\* locals of deleteTask; hadAssignments and hadAttachments record the rows of
\* the task when the call began
DeleterIdle ==
  [pc |-> "idle", taskId |-> 0, userId |-> "u1", outcome |-> "none",
   existed |-> FALSE, hadAssignments |-> {}, hadAttachments |-> {}]

\* no attachment is stored, no deleteTask call was made
DeleteInit ==
  /\ task_attachments = {}
  /\ deleter = DeleterIdle

\* the message the user is sending and the locals of the chatWithAgent call
\* made for it; sends counts the messages sent so far and before records
\* the rows of the conversation when the user sent the message
TurnIdle ==
  [pc |-> "idle", sends |-> 0, message |-> 0, skipUserMessage |-> FALSE,
   before |-> <<>>, historyRows |-> <<>>, history |-> <<>>,
   messagesForModel |-> <<>>]

\* the Collab page before a group is selected: effects lists the runs of the
\* message subscription effect, channels the runs whose channel is subscribed
NoGroup == "none"
PageInit ==
  [selectedGroupId |-> NoGroup, messages |-> {}, effects |-> <<>>, channels |-> {}]

\* no route handler in progress
HandlerIdle ==
  [pc |-> "idle", name |-> "none", userId |-> Undefined, groupId |-> "none",
   sent |-> <<>>]

\* one group with its owner, a member and a message, as createGroup,
\* joinGroup and createMessage leave them; the field creator of a group row
\* is not a column: it records whose createGroup call inserted the row
GroupId == "g1"
GroupNames == <<"g1", "g2", "g3", "g4">>
GroupInit ==
  /\ group = [g \in {GroupId} |->
               [id |-> GroupId, Group_Name |-> "n0", creator |-> "u1"]]
  /\ nextGroup = 2
  /\ group_members = {[group_id |-> GroupId, id |-> "u1", role |-> "Owner"],
                      [group_id |-> GroupId, id |-> "u2", role |-> "Member"]}
  /\ group_messages = {[group_id |-> GroupId, id |-> 1]}
  /\ handler = HandlerIdle

\* nothing is shared
ShareInit ==
  /\ resource_access = {}
  /\ share_requests = {}

\* no feedback was given, no LLM step and no handler is in progress
OtherInit ==
  /\ feedback = <<>>
  /\ llm = LLMIdle
  /\ GroupInit
  /\ ChatInit
  /\ PostInit
  /\ DeleteInit
  /\ turn = TurnIdle
  /\ page = PageInit

AuxInit == ShareInit /\ OtherInit

(* ---------------------- TeamService member operations ----------------- *)
\* every agent of the model belongs to the user who made the team
AgentOwner(agentId) == "u1"

\* the grants an approved sharing of the team, or a request to share one of
\* the owner's agents, has left for the second user
TeamGrant ==
  [resource_type |-> "team", resource_id |-> TeamId, user_id |-> "u2"]
AgentShare(status) ==
  [resource_type |-> "agent", resource_id |-> "a1", requester_user_id |-> "u2",
   status |-> status]

\* getTeamById's access check: the owner, a user with a resource_access row
\* for the team, or a user with an approved share request for one of the
\* agents of the team's owner
TeamAccess(teamId, userId) ==
  /\ teamId \in DOMAIN teams
  /\ \/ teams[teamId].user_id = userId
     \/ \E r \in resource_access :
          /\ r.resource_type = "team"
          /\ r.resource_id = teamId
          /\ r.user_id = userId
     \/ \E r \in share_requests :
          /\ r.resource_type = "agent"
          /\ AgentOwner(r.resource_id) = teams[teamId].user_id
          /\ r.requester_user_id = userId
          /\ r.status = "approved"

\* addTeamMember: access check, then one insert that may fail
AddTeamMember(userId, agentId, role, isPrimary) ==
  /\ memberOps < MaxMemberOps
  /\ memberOps' = memberOps + 1
  /\ \E dbOk \in BOOLEAN :
       IF TeamAccess(TeamId, userId) /\ dbOk
       THEN /\ team_members' = team_members \cup
                 {MemberRow(nextMember, agentId, role, isPrimary)}
            /\ nextMember' = nextMember + 1
       ELSE UNCHANGED <<team_members, nextMember>>
  /\ UNCHANGED auxVars
  /\ UNCHANGED <<teams, collaborative_tasks, task_assignments,
                 agent_contributions, nextTask, execCount, creator, exec>>

\* removeTeamMember: access check, then one delete that may fail
RemoveTeamMember(userId, memberId) ==
  /\ memberOps < MaxMemberOps
  /\ memberOps' = memberOps + 1
  /\ \E dbOk \in BOOLEAN :
       IF TeamAccess(TeamId, userId) /\ dbOk
       THEN team_members' =
              {m \in team_members : ~(m.id = memberId /\ m.team_id = TeamId)}
       ELSE UNCHANGED team_members
  /\ UNCHANGED auxVars
  /\ UNCHANGED <<teams, collaborative_tasks, task_assignments,
                 agent_contributions, nextTask, nextMember, execCount,
                 creator, exec>>

\* getTeamsByUser: the ACTIVE teams of the user in the table tbl
getTeamsByUser(tbl, userId) ==
  {t \in DOMAIN tbl : tbl[t].user_id = userId /\ tbl[t].status = "ACTIVE"}

\* a plausible slip: the row is deleted
DeleteTeamRow(teamId, userId) ==
  [t \in {x \in DOMAIN teams : ~(x = teamId /\ teams[x].user_id = userId)} |->
     teams[t]]

\* .update({ status: 'ARCHIVED' }).eq('id', teamId).eq('user_id', userId)
ArchiveTeam(teamId, userId) ==
  [t \in DOMAIN teams |->
     IF t = teamId /\ teams[t].user_id = userId
     THEN [teams[t] EXCEPT !.status = "ARCHIVED"] ELSE teams[t]]

\* deleteTeam: one update that may fail
DeleteTeam(userId) ==
  /\ \E dbOk \in BOOLEAN :
       teams' = IF dbOk THEN ArchiveTeam(TeamId, userId) ELSE teams
  /\ UNCHANGED auxVars
  /\ UNCHANGED <<team_members, collaborative_tasks, task_assignments,
                 agent_contributions, nextTask, nextMember, memberOps,
                 execCount, creator, exec>>

(* ---------------------- group and upload route handlers -------------- *)
\* res.status(status).json(body); the handler returns
Respond(h, status, body) ==
  [h EXCEPT !.pc = "responded", !.sent = <<[status |-> status, body |-> body]>>]

\* the two shapes of an error body, and a success body
ErrorOnly(msg) == [error |-> msg]
SuccessFalse(msg) == [success |-> FALSE, error |-> msg]
SuccessTrue == [success |-> TRUE]

\* callers of the routes: req.user?.id is undefined without a session
Callers == Users \cup {Undefined}

\* a request for deleteGroup or updateGroup on a group arrives
GroupRequestOn(name, userId, groupId) ==
  /\ handler.pc = "idle"
  /\ handler' = [HandlerIdle EXCEPT !.pc = "role", !.name = name,
                                    !.userId = userId, !.groupId = groupId]
  /\ UNCHANGED <<group, group_members, group_messages>>
  /\ UNCHANGED exceptHandler

\* a request for deleteGroup or updateGroup on the first group arrives
GroupRequest(name, userId) == GroupRequestOn(name, userId, GroupId)

\* the role select of deleteGroup and updateGroup when the query works:
\* .single() needs exactly one row for the group and the caller, and its role
\* must be Owner
GroupAuthorised(groupId, userId) ==
  LET rows == {m \in group_members : m.group_id = groupId /\ m.id = userId}
  IN /\ Cardinality(rows) = 1
     /\ \A m \in rows : m.role = "Owner"

\* select of the caller's role .single(); anyone but the Owner is refused
GroupRole ==
  /\ handler.pc = "role"
  /\ \E dbOk \in BOOLEAN :
       IF ~(dbOk /\ GroupAuthorised(handler.groupId, handler.userId))
       THEN handler' = Respond(handler, 403, ErrorOnly("Not authorized"))
       ELSE handler' = [handler EXCEPT
                          !.pc = IF handler.name = "deleteGroup"
                                 THEN "messages" ELSE "update"]
  /\ UNCHANGED <<group, group_members, group_messages>>
  /\ UNCHANGED exceptHandler

\* deleteGroup: delete of the group's messages
DeleteGroupMessages ==
  /\ handler.pc = "messages"
  /\ \E dbOk \in BOOLEAN :
       IF dbOk
       THEN /\ group_messages' = {m \in group_messages : m.group_id # handler.groupId}
            /\ handler' = [handler EXCEPT !.pc = "members"]
       ELSE /\ UNCHANGED group_messages
            /\ handler' = Respond(handler, 500, ErrorOnly("msgErr"))
  /\ UNCHANGED <<group, group_members>>
  /\ UNCHANGED exceptHandler

\* deleteGroup: delete of the group's members
DeleteGroupMembers ==
  /\ handler.pc = "members"
  /\ \E dbOk \in BOOLEAN :
       IF dbOk
       THEN /\ group_members' = {m \in group_members : m.group_id # handler.groupId}
            /\ handler' = [handler EXCEPT !.pc = "group"]
       ELSE /\ UNCHANGED group_members
            /\ handler' = Respond(handler, 500, ErrorOnly("memberErr"))
  /\ UNCHANGED <<group, group_messages>>
  /\ UNCHANGED exceptHandler

\* deleteGroup: delete of the group row, then { success: true }
DeleteGroupRow ==
  /\ handler.pc = "group"
  /\ \E dbOk \in BOOLEAN :
       IF dbOk
       THEN /\ group' = [g \in DOMAIN group \ {handler.groupId} |-> group[g]]
            /\ handler' = Respond(handler, 200, SuccessTrue)
       ELSE /\ UNCHANGED group
            /\ handler' = Respond(handler, 500, ErrorOnly("groupErr"))
  /\ UNCHANGED <<group_members, group_messages>>
  /\ UNCHANGED exceptHandler

\* updateGroup: update of the row .select().single(), then the response
UpdateGroupRow(name) ==
  /\ handler.pc = "update"
  /\ \E dbOk \in BOOLEAN :
       IF dbOk /\ handler.groupId \in DOMAIN group
       THEN /\ group' = [group EXCEPT ![handler.groupId].Group_Name = name]
            /\ handler' = Respond(handler, 200, SuccessTrue)
       ELSE /\ UNCHANGED group
            /\ handler' = Respond(handler, 500, ErrorOnly("groupErr"))
  /\ UNCHANGED <<group_members, group_messages>>
  /\ UNCHANGED exceptHandler

\* GET /api/conversations/:id: the selects find their row or not, and the
\* caller owns the agent, has shared access to it, or neither
GetConversation(userId) ==
  /\ handler.pc = "idle"
  /\ \E convFound \in BOOLEAN, agentFound \in BOOLEAN, access \in BOOLEAN,
        thrown \in BOOLEAN :
       LET h == [HandlerIdle EXCEPT !.name = "getConversation", !.userId = userId]
       IN handler' =
            IF userId = Undefined THEN Respond(h, 401, SuccessFalse("Unauthorized"))
            ELSE IF thrown
              THEN Respond(h, 500, SuccessFalse("Failed to fetch conversation"))
            ELSE IF ~convFound
              THEN Respond(h, 404, SuccessFalse("Conversation not found"))
            ELSE IF ~agentFound THEN Respond(h, 404, ErrorOnly("Agent not found"))
            ELSE IF ~access THEN Respond(h, 403, ErrorOnly("Access denied"))
            ELSE Respond(h, 200, SuccessTrue)
  /\ UNCHANGED <<group, group_members, group_messages>>
  /\ UNCHANGED exceptHandler

\* POST /api/uploads/messages/:messageId: no file, a file validateFile
\* rejects, a file whose saving fails, a file that is saved
UploadFiles == {"none", "bad_type", "too_large", "valid"}
UploadMessageFile(file) ==
  /\ handler.pc = "idle"
  /\ \E saved \in BOOLEAN :
       LET h == [HandlerIdle EXCEPT !.name = "uploadMessageFile"]
       IN handler' =
            IF file = "none" THEN Respond(h, 400, ErrorOnly("No file uploaded"))
            ELSE IF file # "valid" THEN Respond(h, 400, ErrorOnly(file))
            ELSE IF ~saved THEN Respond(h, 500, ErrorOnly("Upload failed"))
            ELSE Respond(h, 200, SuccessTrue)
  /\ UNCHANGED <<group, group_members, group_messages>>
  /\ UNCHANGED exceptHandler

\* the response was sent; the next request may come
HandlerDone ==
  /\ handler.pc = "responded"
  /\ handler' = HandlerIdle
  /\ UNCHANGED <<group, group_members, group_messages>>
  /\ UNCHANGED exceptHandler

(* ---------------------- createGroup, joinGroup, createMessage --------- *)
\* createGroup arrives: the body is validated, then the session
CreateGroupRequest(userId, valid) ==
  /\ handler.pc = "idle"
  /\ nextGroup <= MaxGroups
  /\ LET h == [HandlerIdle EXCEPT !.name = "createGroup", !.userId = userId]
     IN handler' =
          IF ~valid
          THEN Respond(h, 400, SuccessFalse("Name and description required"))
          ELSE IF userId = Undefined THEN Respond(h, 401, SuccessFalse("Unauthorized"))
          ELSE [h EXCEPT !.pc = "insert_group"]
  /\ UNCHANGED <<group, group_members, group_messages, nextGroup>>
  /\ UNCHANGED exceptGroup

\* insert of the group row .select().single(); an error is thrown
CreateGroupInsert ==
  /\ handler.pc = "insert_group"
  /\ \E dbOk \in BOOLEAN :
       LET groupId == GroupNames[nextGroup]
       IN IF dbOk
          THEN /\ group' = group @@ (groupId :> [id |-> groupId, Group_Name |-> "n0",
                                                 creator |-> handler.userId])
               /\ nextGroup' = nextGroup + 1
               /\ handler' = [handler EXCEPT !.pc = "add_creator", !.groupId = groupId]
          ELSE /\ UNCHANGED <<group, nextGroup>>
               /\ handler' = Respond(handler, 500, SuccessFalse("groupError"))
  /\ UNCHANGED <<group_members, group_messages>>
  /\ UNCHANGED exceptGroup

\* insert of the creator into group_members with role Owner
CreateGroupAddCreator ==
  /\ handler.pc = "add_creator"
  /\ \E dbOk \in BOOLEAN :
       IF dbOk
       THEN /\ group_members' = group_members \cup
                 {[group_id |-> handler.groupId, id |-> handler.userId,
                   role |-> "Owner"]}
            /\ handler' = Respond(handler, 201, [group |-> handler.groupId])
       ELSE /\ UNCHANGED group_members
            /\ handler' = [handler EXCEPT !.pc = "rollback"]
  /\ UNCHANGED <<group, group_messages, nextGroup>>
  /\ UNCHANGED exceptGroup

\* the rollback: delete of the group row (its result is not looked at), then
\* memberError is thrown and answered by the catch block
CreateGroupRollback ==
  /\ handler.pc = "rollback"
  /\ \E dbOk \in BOOLEAN :
       group' = IF dbOk
                THEN [g \in DOMAIN group \ {handler.groupId} |-> group[g]]
                ELSE group
  /\ handler' = Respond(handler, 500, SuccessFalse("memberError"))
  /\ UNCHANGED <<group_members, group_messages, nextGroup>>
  /\ UNCHANGED exceptGroup

\* joinGroup: one insert into group_members with role Member
JoinGroup(userId, groupId) ==
  /\ handler.pc = "idle"
  /\ LET h == [HandlerIdle EXCEPT !.name = "joinGroup", !.userId = userId,
                                  !.groupId = groupId]
     IN IF userId = Undefined
        THEN /\ handler' = Respond(h, 401, SuccessFalse("Unauthorized"))
             /\ UNCHANGED group_members
        ELSE \E dbOk \in BOOLEAN :
               IF dbOk
               THEN /\ group_members' = group_members \cup
                         {[group_id |-> groupId, id |-> userId, role |-> "Member"]}
                    /\ handler' = Respond(h, 200, SuccessTrue)
               ELSE /\ UNCHANGED group_members
                    /\ handler' = Respond(h, 500, SuccessFalse("error"))
  /\ UNCHANGED <<group, group_messages>>
  /\ UNCHANGED exceptHandler

\* createMessage: one insert into group_messages
CreateMessage(userId, groupId) ==
  /\ handler.pc = "idle"
  /\ Cardinality(group_messages) < MaxGroupMessages
  /\ LET h == [HandlerIdle EXCEPT !.name = "createMessage", !.userId = userId,
                                  !.groupId = groupId]
     IN IF userId = Undefined
        THEN /\ handler' = Respond(h, 401, SuccessFalse("Unauthorized"))
             /\ UNCHANGED group_messages
        ELSE \E dbOk \in BOOLEAN :
               IF dbOk
               THEN /\ group_messages' = group_messages \cup
                         {[group_id |-> groupId,
                           id |-> Cardinality(group_messages) + 1]}
                    /\ handler' = Respond(h, 201, [message |-> groupId])
               ELSE /\ UNCHANGED group_messages
                    /\ handler' = Respond(h, 500, SuccessFalse("error"))
  /\ UNCHANGED <<group, group_members>>
  /\ UNCHANGED exceptHandler

(* ---------------------- generateSubtasks ------------------------------ *)
\* What the decomposition call can produce: a failed call, text that is not
\* JSON, JSON that is not an array, or an array whose entries name an agent
\* of the team or not, possibly twice, or are null.
NullEntry == [agentId |-> Null, description |-> Null]
LLMEntries ==
  [agentId : AgentIds \cup {"zz"}, description : {"d1", "d2"}] \cup {NullEntry}
DecompositionOutputs ==
  {[kind |-> k, items |-> <<>>] : k \in {"failed", "notjson", "nonarray"}}
  \cup {[kind |-> "array", items |-> s] : s \in SeqsUpTo(LLMEntries, MaxLLMEntries)}

\* the two outputs used where the decomposition is not what is examined:
\* a failed call and a well-formed array
PlainOutputs ==
  {[kind |-> "failed", items |-> <<>>],
   [kind |-> "array", items |-> <<[agentId |-> "a2", description |-> "d2"],
                                  [agentId |-> "a1", description |-> "d1"]>>]}

\* `Provide analysis and insights from the perspective of ${role}.`
DefaultDescription(role) ==
  CASE role = "lead" -> "Provide analysis as lead"
    [] role = "dev" -> "Provide analysis as dev"
    [] OTHER -> "Provide analysis as qa"

\* `Analyze the task from the perspective of ${role}.`
FallbackDescription(role) ==
  CASE role = "lead" -> "Analyze as lead"
    [] role = "dev" -> "Analyze as dev"
    [] OTHER -> "Analyze as qa"

\* subtasks.find((s) => s.agentId === agent.id): index of the first match, 0
\* when there is none, -1 when a null entry is reached first (TypeError)
RECURSIVE FindFrom(_, _, _)
FindFrom(items, agentId, i) ==
  IF i > Len(items) THEN 0
  ELSE IF items[i] = NullEntry THEN -1
  ELSE IF items[i].agentId = agentId THEN i
  ELSE FindFrom(items, agentId, i + 1)

Find(items, agentId) == FindFrom(items, agentId, 1)

\* the catch branch: one generic subtask per member
FallbackSubtasks(members) ==
  [i \in 1..Len(members) |->
     [agentId |-> members[i].agent_id,
      description |-> FallbackDescription(members[i].role)]]

\* the validation loop: for every agent profile its first entry, else a default
ValidatedSubtasks(members, items) ==
  [i \in 1..Len(members) |->
     LET k == Find(items, members[i].agent_id)
     IN  IF k > 0
         THEN [agentId |-> items[k].agentId, description |-> items[k].description]
         ELSE [agentId |-> members[i].agent_id,
               description |-> DefaultDescription(members[i].role)]]

\* a plausible slip: the parsed array is used as it came, without the
\* validation loop
generateSubtasksUnvalidated(members, out) ==
  IF out.kind = "array" THEN out.items ELSE FallbackSubtasks(members)

\* JSON.parse of the stripped content, the validation loop, and the catch
\* branch for a failed call, unparsable text or a TypeError in the loop
generateSubtasks(members, out) ==
  IF out.kind = "array"
     /\ \A i \in 1..Len(members) : Find(out.items, members[i].agent_id) >= 0
  THEN ValidatedSubtasks(members, out.items)
  ELSE FallbackSubtasks(members)

(* ---------------------- createCollaborativeTask ----------------------- *)
\* getTaskById's access check (task owner or team owner)
TaskAccess(taskId, userId) ==
  /\ taskId \in DOMAIN collaborative_tasks
  /\ \/ collaborative_tasks[taskId].user_id = userId
     \/ teams[collaborative_tasks[taskId].team_id].user_id = userId

\* version number lookup (when it fails the number stays 1) and insert of the
\* task row; parent = 0 is a call without parentTaskId; limit bounds the
\* number of rows ever created
CreateInsertTask(userId, parent, limit) ==
  /\ creator.pc = "idle"
  /\ nextTask <= limit
  /\ parent = 0 \/ parent \in DOMAIN collaborative_tasks
  /\ \E lookupOk \in (IF parent # 0 THEN BOOLEAN ELSE {TRUE}), dbOk \in BOOLEAN :
       LET versionNumber ==
             IF parent # 0 /\ lookupOk
             THEN collaborative_tasks[parent].version_number + 1 ELSE 1
           row == [id |-> nextTask, team_id |-> TeamId, user_id |-> userId,
                   status |-> "PENDING", version_number |-> versionNumber,
                   parent_task_id |-> parent, result |-> <<Null>>]
       IN IF dbOk
          THEN /\ collaborative_tasks' = collaborative_tasks @@ (nextTask :> row)
               /\ nextTask' = nextTask + 1
               /\ creator' = [CreatorIdle EXCEPT !.pc = "members", !.taskId = nextTask,
                                                 !.userId = userId]
          ELSE /\ UNCHANGED <<collaborative_tasks, nextTask>>
               /\ creator' = [CreatorIdle EXCEPT !.pc = "done", !.userId = userId,
                                                 !.outcome = "error"]
  /\ UNCHANGED auxVars
  /\ UNCHANGED <<teams, team_members, task_assignments, agent_contributions,
                 nextMember, memberOps, execCount, exec>>

\* createCollaborativeTask called directly
CreateTask(userId, limit) == CreateInsertTask(userId, 0, limit)

\* createTaskVersion: getTaskById on the original, then createCollaborativeTask
\* with parentTaskId = original.parent_task_id || originalTaskId
CreateTaskVersion(userId, originalTaskId, limit) ==
  /\ TaskAccess(originalTaskId, userId)
  /\ LET p == collaborative_tasks[originalTaskId].parent_task_id
     IN CreateInsertTask(userId, IF p # 0 THEN p ELSE originalTaskId, limit)

\* select of the team members, then generateSubtasks; outs is the set of
\* outputs the decomposition call may give
CreateFetchMembers(outs) ==
  /\ creator.pc = "members"
  /\ \/ \E members \in PrimaryFirstOrders({m \in team_members : m.team_id = creator.teamId}),
          out \in outs :
          creator' = [creator EXCEPT !.pc = "insert",
                                     !.subtasks = generateSubtasks(members, out),
                                     !.i = 1]
     \/ creator' = [creator EXCEPT !.pc = "done", !.outcome = "error"]
  /\ UNCHANGED auxVars
  /\ UNCHANGED <<dbVars, nextTask, nextMember, memberOps, execCount, exec>>

\* one iteration of the insert loop
CreateInsertAssignment ==
  /\ creator.pc = "insert"
  /\ creator.i <= Len(creator.subtasks)
  /\ LET subtask == creator.subtasks[creator.i]
         row == [id |-> <<creator.taskId, creator.i>>, task_id |-> creator.taskId,
                 agent_id |-> subtask.agentId,
                 subtask_description |-> subtask.description,
                 status |-> "PENDING", result |-> <<Null>>,
                 execution_order |-> creator.i]
     IN \/ /\ task_assignments' = task_assignments \cup {row}
           /\ creator' = [creator EXCEPT !.i = creator.i + 1]
        \/ /\ UNCHANGED task_assignments
           /\ creator' = [creator EXCEPT !.pc = "done", !.outcome = "error"]
  /\ UNCHANGED auxVars
  /\ UNCHANGED <<teams, team_members, collaborative_tasks, agent_contributions,
                 nextTask, nextMember, memberOps, execCount, exec>>

\* return await this.getTaskById(taskId, userId): only reads, may throw
CreateReturn ==
  /\ creator.pc = "insert"
  /\ creator.i > Len(creator.subtasks)
  /\ \E dbOk \in BOOLEAN :
       creator' = [creator EXCEPT !.pc = "done",
                                  !.outcome = IF dbOk THEN "ok" ELSE "error"]
  /\ UNCHANGED auxVars
  /\ UNCHANGED <<dbVars, nextTask, nextMember, memberOps, execCount, exec>>

\* the call has returned or thrown; the next request may come
CreateDone ==
  /\ creator.pc = "done"
  /\ creator' = CreatorIdle
  /\ UNCHANGED auxVars
  /\ UNCHANGED <<dbVars, nextTask, nextMember, memberOps, execCount, exec>>

(* ---------------------- saveTaskAttachment, deleteTask ---------------- *)
\* saveTaskAttachment: one insert into task_attachments, which may fail
SaveTaskAttachment(taskId) ==
  /\ deleter.pc = "idle"
  /\ Cardinality(task_attachments) < MaxAttachments
  /\ \E dbOk \in BOOLEAN :
       task_attachments' =
         IF dbOk
         THEN task_attachments \cup
                {[id |-> Cardinality(task_attachments) + 1, task_id |-> taskId]}
         ELSE task_attachments
  /\ UNCHANGED deleter
  /\ UNCHANGED exceptDelete
  /\ UNCHANGED coreVars

\* deleteTask begins: getTaskById (which may throw), then the owner check
DeleteTaskStart(taskId, userId) ==
  /\ deleter.pc = "idle"
  /\ creator.pc = "idle"
  /\ exec.pc = "idle"
  /\ \E dbOk \in BOOLEAN :
       LET d == [DeleterIdle EXCEPT
                   !.taskId = taskId, !.userId = userId,
                   !.existed = taskId \in DOMAIN collaborative_tasks,
                   !.hadAssignments = {a \in task_assignments : a.task_id = taskId},
                   !.hadAttachments = {a \in task_attachments : a.task_id = taskId}]
       IN deleter' =
            IF dbOk /\ TaskAccess(taskId, userId)
                    /\ collaborative_tasks[taskId].user_id = userId
            THEN [d EXCEPT !.pc = "assignments"]
            ELSE [d EXCEPT !.pc = "done", !.outcome = "error"]
  /\ UNCHANGED task_attachments
  /\ UNCHANGED exceptDelete
  /\ UNCHANGED coreVars

\* delete of the task's rows of task_assignments
DeleteTaskAssignments ==
  /\ deleter.pc = "assignments"
  /\ \E dbOk \in BOOLEAN :
       IF dbOk
       THEN /\ task_assignments' =
                 {a \in task_assignments : a.task_id # deleter.taskId}
            /\ deleter' = [deleter EXCEPT !.pc = "attachments"]
       ELSE /\ UNCHANGED task_assignments
            /\ deleter' = [deleter EXCEPT !.pc = "done", !.outcome = "error"]
  /\ UNCHANGED task_attachments
  /\ UNCHANGED exceptDelete
  /\ UNCHANGED <<teams, team_members, collaborative_tasks, agent_contributions,
                 nextTask, nextMember, memberOps, execCount, creator, exec>>

\* delete of the task's rows of task_attachments
DeleteTaskAttachments ==
  /\ deleter.pc = "attachments"
  /\ \E dbOk \in BOOLEAN :
       IF dbOk
       THEN /\ task_attachments' =
                 {a \in task_attachments : a.task_id # deleter.taskId}
            /\ deleter' = [deleter EXCEPT !.pc = "task"]
       ELSE /\ UNCHANGED task_attachments
            /\ deleter' = [deleter EXCEPT !.pc = "done", !.outcome = "error"]
  /\ UNCHANGED exceptDelete
  /\ UNCHANGED coreVars

\* delete of the task row .eq('id', taskId).eq('user_id', userId)
DeleteTaskRow ==
  /\ deleter.pc = "task"
  /\ \E dbOk \in BOOLEAN :
       IF dbOk
       THEN /\ collaborative_tasks' =
                 [t \in {x \in DOMAIN collaborative_tasks :
                           ~(x = deleter.taskId
                             /\ collaborative_tasks[x].user_id = deleter.userId)} |->
                    collaborative_tasks[t]]
            /\ deleter' = [deleter EXCEPT !.pc = "done", !.outcome = "ok"]
       ELSE /\ UNCHANGED collaborative_tasks
            /\ deleter' = [deleter EXCEPT !.pc = "done", !.outcome = "error"]
  /\ UNCHANGED task_attachments
  /\ UNCHANGED exceptDelete
  /\ UNCHANGED <<teams, team_members, task_assignments, agent_contributions,
                 nextTask, nextMember, memberOps, execCount, creator, exec>>

\* the call has returned or thrown; the next request may come
DeleteTaskDone ==
  /\ deleter.pc = "done"
  /\ deleter' = DeleterIdle
  /\ UNCHANGED task_attachments
  /\ UNCHANGED exceptDelete
  /\ UNCHANGED coreVars

(* ---------------------- recordTaskFeedback --------------------------- *)
\* values a caller may pass as feedback: number
FeedbackInputs == {-1, 0, 1, 2}

\* the access check of recordTaskFeedback: the task's owner, the team's
\* owner, or a user with an approved share request for an agent of the team
FeedbackAccess(taskId, userId) ==
  /\ taskId \in DOMAIN collaborative_tasks
  /\ LET task == collaborative_tasks[taskId]
         agentIds == {m.agent_id : m \in {x \in team_members : x.team_id = task.team_id}}
     IN \/ task.user_id = userId
        \/ teams[task.team_id].user_id = userId
        \/ \E r \in share_requests :
             /\ r.resource_type = "agent"
             /\ r.resource_id \in agentIds
             /\ r.requester_user_id = userId
             /\ r.status = "approved"

\* recordTaskFeedback: select of the task, access check, .update({ feedback })
RecordTaskFeedback(taskId, userId, value) ==
  /\ creator.pc = "idle"
  /\ \E dbOk \in BOOLEAN :
       feedback' = IF FeedbackAccess(taskId, userId) /\ dbOk
                   THEN (taskId :> value) @@ feedback
                   ELSE feedback
  /\ UNCHANGED exceptFeedback

(* ---------------------- provider responses ---------------------------- *)
\* a chat completion: message.content as a sequence of characters ("_" is
\* white space) and choices[0].logprobs
Token(lp) == [has |-> TRUE, logprob |-> lp]
NullToken == [has |-> FALSE, logprob |-> 0]
Logprobs(tokens) == [present |-> TRUE, content |-> tokens]
NoLogprobs == [present |-> FALSE, content |-> <<>>]

Ok(content, logprobs) == [kind |-> "ok", content |-> content, logprobs |-> logprobs]
Failed(kind) == [kind |-> kind, content |-> <<>>, logprobs |-> NoLogprobs]

\* outcomes of one call made for an agent's subtask
AgentOutcomes ==
  {Ok(<<"x">>, Logprobs(<<Token(0)>>)),
   Ok(<<"_", "y", "_">>, Logprobs(<<Token(-1), NullToken, Token(-2)>>)),
   Failed("model_error"),
   Failed("other_error")}

\* outcomes of one call made for the synthesis
SynthOutcomes ==
  {Ok(<<"s">>, NoLogprobs), Ok(<<>>, NoLogprobs),
   Failed("model_error"), Failed("other_error")}

\* the outcomes used where the variety of the responses is not what is
\* examined: one response and one failure
PlainAgentOutcomes ==
  {Ok(<<"_", "y", "_">>, Logprobs(<<Token(-1), NullToken, Token(-2)>>)),
   Failed("other_error")}
PlainSynthOutcomes == {Ok(<<"s">>, NoLogprobs), Failed("other_error")}

\* String.prototype.trim
RECURSIVE TrimLeft(_)
TrimLeft(s) == IF s # <<>> /\ Head(s) = "_" THEN TrimLeft(Tail(s)) ELSE s
RECURSIVE TrimRight(_)
TrimRight(s) ==
  IF s # <<>> /\ s[Len(s)] = "_" THEN TrimRight(SubSeq(s, 1, Len(s) - 1)) ELSE s
Trim(s) == TrimRight(TrimLeft(s))

(* ---------------------- computeConfidenceFromLogprobs ----------------- *)
NoConfidence == -1     \* the function's null

RECURSIVE SumLogprobs(_)
SumLogprobs(tokens) ==
  IF tokens = <<>> THEN 0 ELSE Head(tokens).logprob + SumLogprobs(Tail(tokens))

\* Math.exp(sum / n) * 100, in hundredths of a point, for the means that are
\* multiples of one half down to -4
ExpScore(sum, n) ==
  CASE 2 * sum >= 0 -> 10000
    [] 2 * sum = -1 * n -> 6065
    [] 2 * sum = -2 * n -> 3679
    [] 2 * sum = -3 * n -> 2231
    [] 2 * sum = -4 * n -> 1353
    [] 2 * sum = -5 * n -> 821
    [] 2 * sum = -6 * n -> 498
    [] 2 * sum = -7 * n -> 302
    [] OTHER -> 183

computeConfidenceFromLogprobs(logprobs) ==
  IF ~logprobs.present \/ Len(logprobs.content) = 0 THEN NoConfidence
  ELSE LET tokenLogprobs == SelectSeq(logprobs.content, LAMBDA t : t.has)
       IN IF Len(tokenLogprobs) = 0 THEN NoConfidence
          ELSE LET score == ExpScore(SumLogprobs(tokenLogprobs), Len(tokenLogprobs))
               IN IF score > 10000 THEN 10000 ELSE IF score < 0 THEN 0 ELSE score

(* ---------------------- executeAgentSubtask --------------------------- *)
DefaultModel == "gpt-4o-mini"
ErrorResult == <<"Error executing subtask">>
EmptyObject == [k \in {} |-> Null]

\* const config = JSON.parse(assignment.configuration || "{}");
\* const model = config.model || "gpt-4o-mini";
SubtaskModel(assignment) ==
  LET config == IF "configuration" \in DOMAIN assignment
                THEN assignment.configuration ELSE EmptyObject
      model == Prop(config, "model")
  IN IF model \in {Undefined, Null} THEN DefaultModel ELSE model

\* the model the function asks for first when the row it is given carries
\* the configuration of the agent
SubtaskModelOf(agentId) ==
  SubtaskModel([configuration |-> agents[agentId].configuration])

\* the call with the configured model and the retry with the default model;
\* the result is the response used, or the error that is thrown
SubtaskCall(model, first, second) ==
  IF first.kind = "ok" THEN first
  ELSE IF first.kind = "model_error" /\ model # DefaultModel THEN second
  ELSE first

\* what the function reads from the assignment for the system prompt, with
\* the previous contributions it is given
SubtaskPrompt(assignment, previousContributions) ==
  [name |-> Prop(assignment, "name"),
   role |-> Prop(assignment, "role"),
   subtask |-> Prop(assignment, "subtaskDescription"),
   context |-> previousContributions]

\* { result, confidence }; a thrown error is caught and becomes a result
executeAgentSubtask(assignment, previousContributions, first, second) ==
  LET response == SubtaskCall(SubtaskModel(assignment), first, second)
  IN IF response.kind = "ok"
     THEN [result |-> Trim(response.content),
           confidence |-> computeConfidenceFromLogprobs(response.logprobs),
           streamed |-> TRUE]
     ELSE [result |-> ErrorResult, confidence |-> NoConfidence, streamed |-> FALSE]

(* ---------------------- synthesizeResults ----------------------------- *)
\* contributions.map((c) => `${c.agentName}: ${c.result}`).join("\n\n")
RECURSIVE JoinContributions(_)
JoinContributions(contributions) ==
  IF contributions = <<>> THEN <<>>
  ELSE <<Head(contributions).agentName>> \o Head(contributions).result
       \o JoinContributions(Tail(contributions))

synthesizeResults(contributions, first, second) ==
  LET response == IF first.kind = "model_error" THEN second ELSE first
  IN IF response.kind = "ok"
     THEN IF response.content = <<>> THEN <<"Synthesis failed">> ELSE response.content
     ELSE JoinContributions(contributions)

(* ---------------------- the provider calls of an LLM step ------------- *)
\* the steps that call the provider and the model each asks for first
LLMSteps == {"decomposition", "subtask", "synthesis"}
FirstModels(step) ==
  IF step = "subtask" THEN {SubtaskModelOf(a) : a \in AgentIds} ELSE {"gpt-4o-mini"}

\* the model of the call made in the catch of the first call
FallbackModel(step) == IF step = "subtask" THEN "gpt-4o-mini" ELSE "gpt-3.5-turbo"

\* how a call ends: a response, an error that isModelError accepts (status
\* 404, code model_not_found, a message naming the model), another error
CallKinds == {"ok", "model_error", "other_error"}

\* a plausible slip: the second call is made after any error
AfterFirstCallAnyError(step, model, kind) ==
  IF kind = "ok" THEN "returned" ELSE "fallback"

\* where the step stands after its first call
AfterFirstCall(step, model, kind) ==
  IF kind = "ok" THEN "returned"
  ELSE IF kind = "model_error" /\ (step # "subtask" \/ model # "gpt-4o-mini")
  THEN "fallback"
  ELSE "thrown"

\* generateSubtasks, executeAgentSubtask or synthesizeResults reaches its
\* provider call
LLMBegin(step, model) ==
  /\ llm.pc = "idle"
  /\ Len(llm.history) < MaxLLMSteps
  /\ llm' = [llm EXCEPT !.pc = "first", !.step = step, !.model = model,
                         !.log = <<>>]
  /\ UNCHANGED exceptLLM

\* the call inside try
LLMFirstCall ==
  /\ llm.pc = "first"
  /\ \E kind \in CallKinds :
       llm' = [llm EXCEPT !.pc = AfterFirstCall(llm.step, llm.model, kind),
                          !.log = <<[model |-> llm.model, kind |-> kind]>>]
  /\ UNCHANGED exceptLLM

\* the call inside catch: its error is not caught there
LLMFallbackCall ==
  /\ llm.pc = "fallback"
  /\ \E kind \in CallKinds :
       llm' = [llm EXCEPT !.pc = IF kind = "ok" THEN "returned" ELSE "thrown",
                          !.log = Append(llm.log, [model |-> FallbackModel(llm.step),
                                                   kind |-> kind])]
  /\ UNCHANGED exceptLLM

\* the step has its response, or its error has reached the outer catch
LLMEnd ==
  /\ llm.pc \in {"returned", "thrown"}
  /\ llm' = [LLMIdle EXCEPT
               !.history = Append(llm.history, <<llm.step, llm.model, llm.pc>>)]
  /\ UNCHANGED exceptLLM

(* ---------------------- executeCollaborativeTask ---------------------- *)
StoredConfidence == 85  \* confidence: 0.85, in hundredths

\* locals of executeCollaborativeTask; events is what was written to res;
\* calls and synth record what executeAgentSubtask and synthesizeResults
\* were given and returned
ExecIdle ==
  [pc |-> "idle", taskId |-> 0, userId |-> "u1", n |-> 0,
   task |-> [id |-> 0], assignments |-> <<>>, roleMap |-> <<>>,
   contributions |-> <<>>, idx |-> 0, result |-> <<>>, confidence |-> NoConfidence,
   finalResult |-> <<>>, events |-> <<>>, ended |-> FALSE,
   calls |-> <<>>, synth |-> <<>>, synthesized |-> FALSE]

SendEvent(e, event) == [e EXCEPT !.events = Append(e.events, event)]

\* throw: control passes to the catch block
Throw(e) == [e EXCEPT !.pc = "catch"]

\* .update({ status }) on collaborative_tasks .eq('id', taskId)
SetTaskStatus(taskId, status) ==
  [t \in DOMAIN collaborative_tasks |->
     IF t = taskId THEN [collaborative_tasks[t] EXCEPT !.status = status]
     ELSE collaborative_tasks[t]]

\* rows of task_assignments of a task in ascending execution_order, each
\* joined with name and configuration of its agent
AssignmentsOf(taskId) ==
  LET rows == {a \in task_assignments : a.task_id = taskId}
      n == Cardinality(rows)
      sorted == CHOOSE s \in [1..n -> rows] :
                  \A i, j \in 1..n : i < j => s[i].execution_order < s[j].execution_order
  IN [i \in 1..n |->
        [id |-> sorted[i].id, task_id |-> sorted[i].task_id,
         agent_id |-> sorted[i].agent_id,
         subtask_description |-> sorted[i].subtask_description,
         status |-> sorted[i].status, result |-> sorted[i].result,
         execution_order |-> sorted[i].execution_order,
         agents |-> [name |-> agents[sorted[i].agent_id].name,
                     configuration |-> agents[sorted[i].agent_id].configuration]]]

\* new Map(teamMembers.map(tm => [tm.agent_id, tm.role])): when an agent has
\* two rows the one the select returns last wins
RoleMaps(teamId) ==
  LET rows == {m \in team_members : m.team_id = teamId}
  IN {f \in [{m.agent_id : m \in rows} -> {m.role : m \in rows}] :
        \A a \in DOMAIN f : \E m \in rows : m.agent_id = a /\ m.role = f[a]}

\* agentRoleMap.get(agent_id) || 'Agent'
RoleOf(roleMap, agentId) ==
  IF agentId \in DOMAIN roleMap THEN roleMap[agentId] ELSE "Agent"

\* the request arrives: SSE head, then the update of the status; limit bounds
\* the number of requests ever made
ExecStart(taskId, userId, limit) ==
  /\ exec.pc = "idle"
  /\ creator.pc = "idle"
  /\ execCount < limit
  /\ execCount' = execCount + 1
  /\ LET e == [ExecIdle EXCEPT !.taskId = taskId, !.userId = userId,
                               !.n = execCount + 1]
     IN \E dbOk \in BOOLEAN :
          IF dbOk
          THEN /\ collaborative_tasks' = SetTaskStatus(taskId, "IN_PROGRESS")
               /\ exec' = SendEvent([e EXCEPT !.pc = "task"], "status")
          ELSE /\ UNCHANGED collaborative_tasks
               /\ exec' = Throw(e)
  /\ UNCHANGED auxVars
  /\ UNCHANGED <<teams, team_members, task_assignments, agent_contributions,
                 nextTask, nextMember, memberOps, creator>>

\* select of the task .eq('id', taskId).or(`user_id.eq.${userId}`)
ExecFetchTask ==
  /\ exec.pc = "task"
  /\ \E dbOk \in BOOLEAN :
       IF ~dbOk THEN exec' = Throw(exec)
       ELSE IF exec.taskId \in DOMAIN collaborative_tasks
               /\ collaborative_tasks[exec.taskId].user_id = exec.userId
       THEN exec' = [exec EXCEPT !.pc = "assignments",
                                 !.task = collaborative_tasks[exec.taskId]]
       ELSE exec' = [SendEvent(exec, "error") EXCEPT !.pc = "done", !.ended = TRUE]
  /\ UNCHANGED auxVars
  /\ UNCHANGED <<dbVars, nextTask, nextMember, memberOps, execCount, creator>>

\* select of the assignments with agent info
ExecFetchAssignments ==
  /\ exec.pc = "assignments"
  /\ \E dbOk \in BOOLEAN :
       IF ~dbOk THEN exec' = Throw(exec)
       ELSE exec' = [exec EXCEPT !.pc = "members",
                                 !.assignments = AssignmentsOf(exec.taskId)]
  /\ UNCHANGED auxVars
  /\ UNCHANGED <<dbVars, nextTask, nextMember, memberOps, execCount, creator>>

\* select of the team members for the roles; the loop begins
ExecFetchMembers ==
  /\ exec.pc = "members"
  /\ \/ exec' = Throw(exec)
     \/ \E roleMap \in RoleMaps(exec.task.team_id) :
          exec' = [exec EXCEPT !.roleMap = roleMap, !.idx = 1,
                               !.pc = IF Len(exec.assignments) = 0
                                      THEN "synthesis" ELSE "start"]
  /\ UNCHANGED auxVars
  /\ UNCHANGED <<dbVars, nextTask, nextMember, memberOps, execCount, creator>>

\* agent_start event and update of the assignment to IN_PROGRESS
ExecAgentStart ==
  /\ exec.pc = "start"
  /\ LET assignment == exec.assignments[exec.idx]
         e == SendEvent(exec, "agent_start")
     IN \E dbOk \in BOOLEAN :
          IF dbOk
          THEN /\ task_assignments' =
                    {IF a.id = assignment.id THEN [a EXCEPT !.status = "IN_PROGRESS"] ELSE a
                       : a \in task_assignments}
               /\ exec' = [e EXCEPT !.pc = "subtask"]
          ELSE /\ UNCHANGED task_assignments
               /\ exec' = Throw(e)
  /\ UNCHANGED auxVars
  /\ UNCHANGED <<teams, team_members, collaborative_tasks, agent_contributions,
                 nextTask, nextMember, memberOps, execCount, creator>>

\* executeAgentSubtask: the provider call(s), agent_stream on success;
\* outcomes is the set of outcomes a provider call may have
ExecAgentSubtask(outcomes) ==
  /\ exec.pc = "subtask"
  /\ \E first \in outcomes, second \in outcomes :
       LET assignment == exec.assignments[exec.idx]
           r == executeAgentSubtask(assignment, exec.contributions, first, second)
           call == [order |-> assignment.execution_order,
                    agent |-> assignment.agent_id,
                    model |-> SubtaskModel(assignment),
                    prompt |-> SubtaskPrompt(assignment, exec.contributions),
                    ok |-> r.streamed, result |-> r.result,
                    confidence |-> r.confidence]
           e == IF r.streamed THEN SendEvent(exec, "agent_stream") ELSE exec
       IN exec' = [e EXCEPT !.pc = "save", !.result = r.result,
                            !.confidence = r.confidence,
                            !.calls = Append(exec.calls, call)]
  /\ UNCHANGED auxVars
  /\ UNCHANGED <<dbVars, nextTask, nextMember, memberOps, execCount, creator>>

\* update of the assignment to COMPLETED with its result
ExecSaveResult ==
  /\ exec.pc = "save"
  /\ LET assignment == exec.assignments[exec.idx]
     IN \E dbOk \in BOOLEAN :
          IF dbOk
          THEN /\ task_assignments' =
                    {IF a.id = assignment.id
                     THEN [a EXCEPT !.status = "COMPLETED", !.result = exec.result]
                     ELSE a : a \in task_assignments}
               /\ exec' = [exec EXCEPT !.pc = "contribution"]
          ELSE /\ UNCHANGED task_assignments
               /\ exec' = Throw(exec)
  /\ UNCHANGED auxVars
  /\ UNCHANGED <<teams, team_members, collaborative_tasks, agent_contributions,
                 nextTask, nextMember, memberOps, execCount, creator>>

\* a plausible slip: the new contribution is put in front of the earlier ones
PushContributionFront(contributions, c) == <<c>> \o contributions

\* contributions.push({ agentName, role, result })
PushContribution(contributions, c) == Append(contributions, c)

\* insert into agent_contributions, contributions.push, agent_complete; the
\* fields exec and computed of the row are not columns: they record which
\* execution wrote it and the confidence executeAgentSubtask returned
ExecSaveContribution ==
  /\ exec.pc = "contribution"
  /\ LET assignment == exec.assignments[exec.idx]
         row == [task_id |-> exec.taskId, agent_id |-> assignment.agent_id,
                 contribution |-> exec.result, confidence |-> StoredConfidence,
                 exec |-> exec.n, computed |-> exec.confidence]
         pushed == PushContribution(exec.contributions,
                                    [agentName |-> assignment.agents.name,
                                     role |-> RoleOf(exec.roleMap, assignment.agent_id),
                                     result |-> exec.result])
     IN \E dbOk \in BOOLEAN :
          IF dbOk
          THEN /\ agent_contributions' = Append(agent_contributions, row)
               /\ exec' = [SendEvent(exec, "agent_complete") EXCEPT
                             !.contributions = pushed,
                             !.idx = exec.idx + 1,
                             !.result = <<>>, !.confidence = NoConfidence,
                             !.pc = IF exec.idx + 1 > Len(exec.assignments)
                                    THEN "synthesis" ELSE "start"]
          ELSE /\ UNCHANGED agent_contributions
               /\ exec' = Throw(exec)
  /\ UNCHANGED auxVars
  /\ UNCHANGED <<teams, team_members, collaborative_tasks, task_assignments,
                 nextTask, nextMember, memberOps, execCount, creator>>

\* synthesis event and synthesizeResults; outcomes is the set of outcomes a
\* provider call may have
ExecSynthesize(outcomes) ==
  /\ exec.pc = "synthesis"
  /\ \E first \in outcomes, second \in outcomes :
       exec' = [SendEvent(exec, "synthesis") EXCEPT
                  !.pc = "final", !.synth = exec.contributions,
                  !.synthesized = TRUE,
                  !.finalResult = synthesizeResults(exec.contributions, first, second)]
  /\ UNCHANGED auxVars
  /\ UNCHANGED <<dbVars, nextTask, nextMember, memberOps, execCount, creator>>

\* update of the task to COMPLETED with the final result, complete event
ExecFinalUpdate ==
  /\ exec.pc = "final"
  /\ \E dbOk \in BOOLEAN :
       IF dbOk
       THEN /\ collaborative_tasks' =
                 [t \in DOMAIN collaborative_tasks |->
                    IF t = exec.taskId
                    THEN [collaborative_tasks[t] EXCEPT !.status = "COMPLETED",
                                                        !.result = exec.finalResult]
                    ELSE collaborative_tasks[t]]
            /\ exec' = [SendEvent(exec, "complete") EXCEPT !.pc = "done", !.ended = TRUE]
       ELSE /\ UNCHANGED collaborative_tasks
            /\ exec' = Throw(exec)
  /\ UNCHANGED auxVars
  /\ UNCHANGED <<teams, team_members, task_assignments, agent_contributions,
                 nextTask, nextMember, memberOps, execCount, creator>>

\* a plausible slip: the catch block ends the response without an event
ExecCatchSilent ==
  /\ exec.pc = "catch"
  /\ \E dbOk \in BOOLEAN :
       collaborative_tasks' = IF dbOk THEN SetTaskStatus(exec.taskId, "PENDING")
                              ELSE collaborative_tasks
  /\ exec' = [exec EXCEPT !.pc = "done", !.ended = TRUE]
  /\ UNCHANGED auxVars
  /\ UNCHANGED <<teams, team_members, task_assignments, agent_contributions,
                 nextTask, nextMember, memberOps, execCount, creator>>

\* the catch block: reset of the status (its error is not looked at), error
\* event, end of the response
ExecCatch ==
  /\ exec.pc = "catch"
  /\ \E dbOk \in BOOLEAN :
       collaborative_tasks' = IF dbOk THEN SetTaskStatus(exec.taskId, "PENDING")
                              ELSE collaborative_tasks
  /\ exec' = [SendEvent(exec, "error") EXCEPT !.pc = "done", !.ended = TRUE]
  /\ UNCHANGED auxVars
  /\ UNCHANGED <<teams, team_members, task_assignments, agent_contributions,
                 nextTask, nextMember, memberOps, execCount, creator>>

\* the response has ended; the next request may come
ExecDone ==
  /\ exec.pc = "done"
  /\ exec' = ExecIdle
  /\ UNCHANGED auxVars
  /\ UNCHANGED <<dbVars, nextTask, nextMember, memberOps, execCount, creator>>

\* the request that is running waits at its await and the event loop goes on
\* with another request: a new one, or the one that was waiting
Yield ==
  /\ exec.pc # "idle" \/ other.pc # "idle"
  /\ exec' = other
  /\ other' = exec
  /\ UNCHANGED exceptOther
  /\ UNCHANGED <<dbVars, nextTask, nextMember, memberOps, execCount, creator>>

(* ---------------------- chatWithAgent / POST message ------------------ *)
ChatWrite(c, event) == [c EXCEPT !.events = Append(c.events, event)]

\* the request arrives
ChatStart(c, skipUserMessage) ==
  /\ chats[c].pc = "idle"
  /\ chats' = [chats EXCEPT ![c] = [ChatIdle EXCEPT !.pc = "setup",
                                       !.skipUserMessage = skipUserMessage]]
  /\ UNCHANGED <<messages, metrics>>
  /\ UNCHANGED exceptChat

\* getAgentById, the conversation (found or inserted), the history: an
\* agent not found or a failed query throws
ChatSetup(c) ==
  /\ chats[c].pc = "setup"
  /\ \E ok \in BOOLEAN :
       chats' = [chats EXCEPT ![c].pc = IF ok THEN "user_message" ELSE "catch"]
  /\ UNCHANGED <<messages, metrics>>
  /\ UNCHANGED exceptChat

\* insert of the user message unless skipUserMessage, the attachments of the
\* last message, then the meta and init events
ChatSaveUserMessage(c) ==
  /\ chats[c].pc = "user_message"
  /\ \E dbOk \in BOOLEAN :
       IF chats[c].skipUserMessage \/ dbOk
       THEN /\ messages' = IF chats[c].skipUserMessage THEN messages
                           ELSE Append(messages, [conversation_id |-> "c1",
                                                  role |-> "user"])
            /\ chats' = [chats EXCEPT ![c] =
                           [ChatWrite(ChatWrite(chats[c], "meta"), "init")
                              EXCEPT !.pc = "stream"]]
       ELSE /\ UNCHANGED messages
            /\ chats' = [chats EXCEPT ![c].pc = "catch"]
  /\ UNCHANGED metrics
  /\ UNCHANGED exceptChat

\* for await (const token of stream): one token
ChatToken(c) ==
  /\ chats[c].pc = "stream"
  /\ Len(chats[c].assistantText) < MaxTokens
  /\ \E token \in {"x", "_"} :
       chats' = [chats EXCEPT ![c] =
                   [ChatWrite(chats[c], "token") EXCEPT
                      !.assistantText = Append(chats[c].assistantText, token)]]
  /\ UNCHANGED <<messages, metrics>>
  /\ UNCHANGED exceptChat

\* the stream is exhausted: no content is an error event and the end
ChatStreamEnd(c) ==
  /\ chats[c].pc = "stream"
  /\ chats' = [chats EXCEPT ![c] =
                 IF Trim(chats[c].assistantText) = <<>>
                 THEN [ChatWrite(chats[c], "error") EXCEPT !.pc = "finished",
                                                          !.ended = TRUE]
                 ELSE [chats[c] EXCEPT !.pc = "save"]]
  /\ UNCHANGED <<messages, metrics>>
  /\ UNCHANGED exceptChat

\* the provider stream throws
ChatStreamError(c) ==
  /\ chats[c].pc = "stream"
  /\ chats' = [chats EXCEPT ![c].pc = "catch"]
  /\ UNCHANGED <<messages, metrics>>
  /\ UNCHANGED exceptChat

\* insert of the assistant message (a failure is logged), done, res.end
ChatSaveAssistant(c) ==
  /\ chats[c].pc = "save"
  /\ \E dbOk \in BOOLEAN :
       messages' = IF dbOk
                   THEN Append(messages, [conversation_id |-> "c1",
                                          role |-> "assistant"])
                   ELSE messages
  /\ chats' = [chats EXCEPT ![c] =
                 [ChatWrite(chats[c], "done") EXCEPT !.pc = "metrics",
                                                     !.ended = TRUE]]
  /\ UNCHANGED metrics
  /\ UNCHANGED exceptChat

\* updateAgentMetrics: select of the metrics; without a row the count starts
\* from 0 (agent?.metrics || {})
ChatMetricsRead(c) ==
  /\ chats[c].pc = "metrics"
  /\ \E dbOk \in BOOLEAN :
       chats' = [chats EXCEPT
                   ![c].pc = "metrics_update",
                   ![c].currentTotal = IF dbOk THEN metrics[chats[c].agentId] ELSE 0,
                   ![c].metricsError = ~dbOk]
  /\ UNCHANGED <<messages, metrics>>
  /\ UNCHANGED exceptChat

\* updateAgentMetrics: update of the metrics (its error is not looked at)
ChatMetricsUpdate(c) ==
  /\ chats[c].pc = "metrics_update"
  /\ \E dbOk \in BOOLEAN :
       /\ metrics' = IF dbOk
                     THEN [metrics EXCEPT ![chats[c].agentId] = chats[c].currentTotal + 1]
                     ELSE metrics
       /\ chats' = [chats EXCEPT
                      ![c].pc = "finished",
                      ![c].metricsError = chats[c].metricsError \/ ~dbOk]
  /\ UNCHANGED messages
  /\ UNCHANGED exceptChat

\* the catch block: a JSON error if nothing was written yet, then res.end
ChatCatch(c) ==
  /\ chats[c].pc = "catch"
  /\ chats' = [chats EXCEPT ![c].pc = "finished", ![c].ended = TRUE,
                             ![c].json = (chats[c].events = <<>>)]
  /\ UNCHANGED <<messages, metrics>>
  /\ UNCHANGED exceptChat

\* values of req.body.role: absent, empty, and some strings
RoleInputs == {Undefined, "", "user", "assistant", "system", "admin"}

\* const { ..., role = "user" } = req.body;  role: role || "user"
PostedRole(role) == IF role \in {Undefined, ""} THEN "user" ELSE role

\* POST /api/conversations/message by a user with access to the agent, with
\* agentId, message and the conversationId given: the insert of the message
\* may fail
PostMessage(role) ==
  /\ Cardinality({i \in 1..Len(messages) : "posted" \in DOMAIN messages[i]}) < MaxPosts
  /\ \E dbOk \in BOOLEAN :
       messages' = IF dbOk
                   THEN Append(messages, [conversation_id |-> "c1",
                                          role |-> PostedRole(role),
                                          posted |-> TRUE])
                   ELSE messages
  /\ UNCHANGED <<metrics, chats>>
  /\ UNCHANGED exceptChat

(* ---------------------- POST message without conversationId ----------- *)
\* the resource_access row that gives the second user access to the agent
AgentGrant ==
  [resource_type |-> "agent", resource_id |-> "a1", user_id |-> "u2"]

\* the caller owns the agent or has a resource_access row for it
AgentAccess(agentId, userId) ==
  \/ AgentOwner(agentId) = userId
  \/ \E r \in resource_access :
       /\ r.resource_type = "agent"
       /\ r.resource_id = agentId
       /\ r.user_id = userId

\* the request arrives with agentId and message and no conversationId: the
\* select of the agent and the access check
PostStart(p, userId) ==
  /\ posts[p].pc = "idle"
  /\ posts' = [posts EXCEPT ![p] =
                 IF AgentAccess("a1", userId)
                 THEN [PostIdle EXCEPT !.pc = "find", !.userId = userId]
                 ELSE [PostIdle EXCEPT !.pc = "responded", !.userId = userId,
                                       !.status = 403]]
  /\ UNCHANGED <<conversations, messages>>
  /\ UNCHANGED exceptPost

\* select of the newest conversation of the agent .limit(1).single(): it is
\* reused if one is returned without error
PostFindConversation(p) ==
  /\ posts[p].pc = "find"
  /\ \E dbOk \in BOOLEAN :
       LET existing == {i \in 1..Len(conversations) :
                          conversations[i].agent_id = posts[p].agentId}
           newest == CHOOSE i \in existing : \A j \in existing : j <= i
       IN posts' = [posts EXCEPT ![p] =
                      IF dbOk /\ existing # {}
                      THEN [posts[p] EXCEPT !.pc = "message",
                                            !.convId = conversations[newest].id]
                      ELSE [posts[p] EXCEPT !.pc = "create",
                                            !.lookupError = ~dbOk]]
  /\ UNCHANGED <<conversations, messages>>
  /\ UNCHANGED exceptPost

\* insert of a new conversation under a fresh id, owned by the agent's owner
PostInsertConversation(p) ==
  /\ posts[p].pc = "create"
  /\ \E dbOk \in BOOLEAN :
       LET convId == Len(conversations) + 1
       IN IF dbOk
          THEN /\ conversations' =
                    Append(conversations,
                           [id |-> convId, agent_id |-> posts[p].agentId,
                            user_id |-> AgentOwner(posts[p].agentId)])
               /\ posts' = [posts EXCEPT ![p].pc = "message", ![p].convId = convId]
          ELSE /\ UNCHANGED conversations
               /\ posts' = [posts EXCEPT ![p].pc = "responded", ![p].status = 500]
  /\ UNCHANGED messages
  /\ UNCHANGED exceptPost

\* insert of the message into the conversation, then the response
PostInsertMessage(p) ==
  /\ posts[p].pc = "message"
  /\ \E dbOk \in BOOLEAN :
       IF dbOk
       THEN /\ messages' = Append(messages, [conversation_id |-> posts[p].convId,
                                             role |-> "user", post |-> p])
            /\ posts' = [posts EXCEPT ![p].pc = "responded", ![p].status = 200]
       ELSE /\ UNCHANGED messages
            /\ posts' = [posts EXCEPT ![p].pc = "responded", ![p].status = 500]
  /\ UNCHANGED conversations
  /\ UNCHANGED exceptPost

(* ---------------------- chatWithAgent: the messages for the model ----- *)
HistoryLimit == 14  \* .slice(-14)

\* Array.prototype.slice(-n)
SliceLast(s, n) == IF Len(s) <= n THEN s ELSE SubSeq(s, Len(s) - n + 1, Len(s))

\* { role: "system", content: systemPrompt }; message texts are numbered
\* from 1, the text of the system prompt is 0
SystemMessage == [role |-> "system", content |-> 0]

\* { role, content } of a row
RoleContent(m) == [role |-> m.role, content |-> m.content]

\* [system, ...history, { role: "user", content: message }]
MessagesForModel(history, message) ==
  <<SystemMessage>> \o history \o <<[role |-> "user", content |-> message]>>

\* the user sends a new message: through the chat page, which stores it with
\* POST /api/conversations/message and sets skipUserMessage, or by calling
\* the chat route alone
SendMessage(skipUserMessage) ==
  /\ turn.pc = "idle"
  /\ turn.sends < MaxSends
  /\ turn' = [TurnIdle EXCEPT !.pc = IF skipUserMessage THEN "post" ELSE "history",
                               !.sends = turn.sends + 1,
                               !.message = turn.sends + 1,
                               !.skipUserMessage = skipUserMessage,
                               !.before = messages]
  /\ UNCHANGED messages
  /\ UNCHANGED exceptTurn

\* POST /api/conversations/message stores the message; when it fails the
\* page does not start the chat
StoreBeforeChat ==
  /\ turn.pc = "post"
  /\ \E dbOk \in BOOLEAN :
       IF dbOk
       THEN /\ messages' = Append(messages, [conversation_id |-> "c1", role |-> "user",
                                             content |-> turn.message])
            /\ turn' = [turn EXCEPT !.pc = "history"]
       ELSE /\ UNCHANGED messages
            /\ turn' = [TurnIdle EXCEPT !.sends = turn.sends]
  /\ UNCHANGED exceptTurn

\* chatWithAgent loads the rows of the conversation in created_at order and
\* keeps the last 14
ChatLoadHistory ==
  /\ turn.pc = "history"
  /\ \E dbOk \in BOOLEAN :
       turn' = IF dbOk
               THEN [turn EXCEPT
                       !.pc = "user_message",
                       !.historyRows = messages,
                       !.history =
                         SliceLast([i \in 1..Len(messages) |-> RoleContent(messages[i])],
                                   HistoryLimit)]
               ELSE [TurnIdle EXCEPT !.sends = turn.sends]
  /\ UNCHANGED messages
  /\ UNCHANGED exceptTurn

\* the user message is inserted unless skipUserMessage; then the messages for
\* the model are built
ChatBuildMessages ==
  /\ turn.pc = "user_message"
  /\ \E dbOk \in BOOLEAN :
       IF turn.skipUserMessage \/ dbOk
       THEN /\ messages' =
                 IF turn.skipUserMessage THEN messages
                 ELSE Append(messages, [conversation_id |-> "c1", role |-> "user",
                                        content |-> turn.message])
            /\ turn' = [turn EXCEPT
                          !.pc = "stream",
                          !.messagesForModel =
                            MessagesForModel(turn.history, turn.message)]
       ELSE /\ UNCHANGED messages
            /\ turn' = [TurnIdle EXCEPT !.sends = turn.sends]
  /\ UNCHANGED exceptTurn

\* the reply is streamed and stored as the assistant message, or the stream
\* or the insert fails
ChatReply ==
  /\ turn.pc = "stream"
  /\ \E stored \in BOOLEAN :
       messages' = IF stored
                   THEN Append(messages, [conversation_id |-> "c1",
                                          role |-> "assistant",
                                          content |-> turn.message])
                   ELSE messages
  /\ turn' = [TurnIdle EXCEPT !.sends = turn.sends]
  /\ UNCHANGED exceptTurn

(* ---------------------- Collab page: messages of the selected group --- *)
\* the groups the user can select
PageGroups == {"g1", "g2"}

\* handleSelectGroup: the state changes, so the cleanup of the last run of the
\* effect is called (it unsubscribes if its channel is set) and the effect
\* runs again: init() starts and waits for getMessages
HandleSelectGroup(groupId) ==
  /\ groupId # page.selectedGroupId
  /\ Len(page.effects) < MaxSelects
  /\ LET last == Len(page.effects)
         cleaned == IF last = 0 THEN page.effects
                    ELSE [page.effects EXCEPT ![last].cleaned = TRUE]
     IN page' = [page EXCEPT
                   !.selectedGroupId = groupId,
                   !.channels = page.channels \ {last},
                   !.effects = Append(cleaned, [groupId |-> groupId, pc |-> "loading",
                                                cleaned |-> FALSE])]
  /\ UNCHANGED groupVars
  /\ UNCHANGED exceptPage

\* getMessages of a run resolves or rejects: setMessages(msgs), then the
\* channel of the run is subscribed
InitResolves(e) ==
  /\ e \in 1..Len(page.effects)
  /\ page.effects[e].pc = "loading"
  /\ \E ok \in BOOLEAN :
       page' = IF ok
               THEN [page EXCEPT
                       !.messages = {m \in group_messages :
                                       m.group_id = page.effects[e].groupId},
                       !.channels = page.channels \cup {e},
                       !.effects[e].pc = "subscribed"]
               ELSE [page EXCEPT !.effects[e].pc = "failed"]
  /\ UNCHANGED groupVars
  /\ UNCHANGED exceptPage

\* a row is inserted into group_messages: every subscribed channel with the
\* filter of its group calls setMessages((prev) => [...prev, message])
RealtimeInsert(groupId) ==
  /\ Cardinality(group_messages) < MaxGroupMessages
  /\ LET message == [group_id |-> groupId, id |-> Cardinality(group_messages) + 1]
     IN /\ group_messages' = group_messages \cup {message}
        /\ page' = [page EXCEPT
                      !.messages =
                        IF \E c \in page.channels : page.effects[c].groupId = groupId
                        THEN page.messages \cup {message} ELSE page.messages]
  /\ UNCHANGED <<group, group_members, handler, nextGroup>>
  /\ UNCHANGED exceptPage

(* ---------------------- specifications -------------------------------- *)
\* one createCollaborativeTask call on any team a createTeam call can leave,
\* with every output of the decomposition
InitDecompose == InitTables /\ AuxInit /\ team_members \in InitMemberSets /\ exec = ExecIdle /\ other = ExecIdle

NextDecompose ==
  \/ \E u \in Users : CreateTask(u, MaxDecomposeTasks)
  \/ CreateFetchMembers(DecompositionOutputs)
  \/ CreateInsertAssignment
  \/ CreateReturn
  \/ CreateDone

SpecDecompose == InitDecompose /\ [][NextDecompose]_vars

\* task and version creation interleaved with changes of the membership
InitCreate == InitTables /\ AuxInit /\ team_members = TwoMembers /\ exec = ExecIdle /\ other = ExecIdle

NextCreate ==
  \/ \E u \in Users : CreateTask(u, MaxTasks)
  \/ \E u \in Users, t \in 1..MaxTasks : CreateTaskVersion(u, t, MaxTasks)
  \/ CreateFetchMembers(PlainOutputs)
  \/ CreateInsertAssignment
  \/ CreateReturn
  \/ CreateDone
  \/ \E u \in Users, a \in AgentIds : AddTeamMember(u, a, "qa", FALSE)
  \/ \E u \in Users, m \in 1..(2 + MaxMemberOps) : RemoveTeamMember(u, m)

SpecCreate == InitCreate /\ [][NextCreate]_vars

\* create and execute requests by any users, one request at a time
InitTask == InitTables /\ AuxInit /\ team_members = TwoMembers /\ exec = ExecIdle /\ other = ExecIdle

NextTask ==
  \/ \E u \in Users : exec.pc = "idle" /\ CreateTask(u, MaxExecTasks)
  \/ CreateFetchMembers(PlainOutputs)
  \/ CreateInsertAssignment
  \/ CreateReturn
  \/ CreateDone
  \/ \E t \in 1..MaxExecTasks, u \in Users : ExecStart(t, u, MaxExecs)
  \/ ExecFetchTask
  \/ ExecFetchAssignments
  \/ ExecFetchMembers
  \/ ExecAgentStart
  \/ ExecAgentSubtask(AgentOutcomes)
  \/ ExecSaveResult
  \/ ExecSaveContribution
  \/ ExecSynthesize(SynthOutcomes)
  \/ ExecFinalUpdate
  \/ ExecCatch
  \/ ExecDone

SpecTask == InitTask /\ [][NextTask]_vars

\* the execution pipeline on teams of no, one and two members
InitPipeline == InitTables /\ AuxInit /\ team_members \in OrderedMemberSets /\ exec = ExecIdle /\ other = ExecIdle

NextPipeline ==
  \/ \E u \in Users : exec.pc = "idle" /\ CreateTask(u, MaxPipelineTasks)
  \/ CreateFetchMembers(PlainOutputs)
  \/ CreateInsertAssignment
  \/ CreateReturn
  \/ CreateDone
  \/ \E t \in 1..MaxPipelineTasks, u \in Users : ExecStart(t, u, MaxPipelineExecs)
  \/ ExecFetchTask
  \/ ExecFetchAssignments
  \/ ExecFetchMembers
  \/ ExecAgentStart
  \/ ExecAgentSubtask(PlainAgentOutcomes)
  \/ ExecSaveResult
  \/ ExecSaveContribution
  \/ ExecSynthesize(PlainSynthOutcomes)
  \/ ExecFinalUpdate
  \/ ExecCatch
  \/ ExecDone

SpecPipeline == InitPipeline /\ [][NextPipeline]_vars

\* a task and the versions made of it and of its versions
InitVersion == InitTables /\ AuxInit /\ team_members = TwoMembers /\ exec = ExecIdle /\ other = ExecIdle

NextVersion ==
  \/ \E u \in Users : CreateTask(u, MaxVersionTasks)
  \/ \E u \in Users, t \in 1..MaxVersionTasks : CreateTaskVersion(u, t, MaxVersionTasks)
  \/ CreateFetchMembers(PlainOutputs)
  \/ CreateInsertAssignment
  \/ CreateReturn
  \/ CreateDone

SpecVersion == InitVersion /\ [][NextVersion]_vars

\* the team operations of the owner and of a second user, who may have been
\* given access to the team or to an agent of the owner, around a task
InitTeam ==
  /\ InitTables /\ team_members = TwoMembers /\ exec = ExecIdle /\ other = ExecIdle
  /\ resource_access \in {{}, {TeamGrant}}
  /\ share_requests \in {{}, {AgentShare("approved")}, {AgentShare("pending")}}
  /\ OtherInit

NextTeam ==
  \/ \E u \in Users : CreateTask(u, MaxTeamTasks)
  \/ CreateFetchMembers(PlainOutputs)
  \/ CreateInsertAssignment
  \/ CreateReturn
  \/ CreateDone
  \/ \E u \in Users, a \in AgentIds : AddTeamMember(u, a, "qa", FALSE)
  \/ \E u \in Users, m \in 1..(2 + MaxMemberOps) : RemoveTeamMember(u, m)
  \/ \E u \in Users : DeleteTeam(u)

SpecTeam == InitTeam /\ [][NextTeam]_vars

\* feedback given on a task by its creator and by other users
InitFeedback ==
  /\ InitTables /\ team_members = TwoMembers /\ exec = ExecIdle /\ other = ExecIdle
  /\ resource_access = {}
  /\ share_requests \in {{}, {AgentShare("approved")}, {AgentShare("pending")}}
  /\ OtherInit

NextFeedback ==
  \/ \E u \in Users : CreateTask(u, MaxFeedbackTasks)
  \/ CreateFetchMembers(PlainOutputs)
  \/ CreateInsertAssignment
  \/ CreateReturn
  \/ CreateDone
  \/ \E t \in 1..MaxFeedbackTasks, u \in Users, v \in FeedbackInputs :
       RecordTaskFeedback(t, u, v)

SpecFeedback == InitFeedback /\ [][NextFeedback]_vars

\* the provider calls of the LLM steps, one step after another
InitProvider ==
  /\ InitTables /\ team_members = TwoMembers /\ exec = ExecIdle /\ other = ExecIdle
  /\ AuxInit

NextProvider ==
  \/ \E step \in LLMSteps : \E model \in FirstModels(step) : LLMBegin(step, model)
  \/ LLMFirstCall
  \/ LLMFallbackCall
  \/ LLMEnd

SpecProvider == InitProvider /\ [][NextProvider]_vars

\* requests to the group, conversation and upload routes, one at a time
InitRoutes ==
  /\ InitTables /\ team_members = TwoMembers /\ exec = ExecIdle /\ other = ExecIdle
  /\ AuxInit

NextRoutes ==
  \/ \E name \in {"deleteGroup", "updateGroup"}, u \in Callers : GroupRequest(name, u)
  \/ GroupRole
  \/ DeleteGroupMessages
  \/ DeleteGroupMembers
  \/ DeleteGroupRow
  \/ \E name \in {"n0", "n1"} : UpdateGroupRow(name)
  \/ \E u \in Callers : GetConversation(u)
  \/ \E file \in UploadFiles : UploadMessageFile(file)
  \/ HandlerDone

SpecRoutes == InitRoutes /\ [][NextRoutes]_vars

\* chats with one agent, which may overlap, and posted messages
InitChat ==
  /\ InitTables /\ team_members = TwoMembers /\ exec = ExecIdle /\ other = ExecIdle
  /\ AuxInit

NextChat ==
  \/ \E c \in 1..MaxChats, skip \in BOOLEAN : ChatStart(c, skip)
  \/ \E c \in 1..MaxChats : ChatSetup(c)
  \/ \E c \in 1..MaxChats : ChatSaveUserMessage(c)
  \/ \E c \in 1..MaxChats : ChatToken(c)
  \/ \E c \in 1..MaxChats : ChatStreamEnd(c)
  \/ \E c \in 1..MaxChats : ChatStreamError(c)
  \/ \E c \in 1..MaxChats : ChatSaveAssistant(c)
  \/ \E c \in 1..MaxChats : ChatMetricsRead(c)
  \/ \E c \in 1..MaxChats : ChatMetricsUpdate(c)
  \/ \E c \in 1..MaxChats : ChatCatch(c)
  \/ \E role \in RoleInputs : PostMessage(role)

SpecChat == InitChat /\ [][NextChat]_vars

\* requests without conversationId for one agent by its owner and by a user
\* who may have shared access, which may overlap
InitPost ==
  /\ InitTables /\ team_members = TwoMembers /\ exec = ExecIdle /\ other = ExecIdle
  /\ resource_access \in {{}, {AgentGrant}}
  /\ share_requests = {}
  /\ OtherInit

NextPost ==
  \/ \E p \in 1..MaxPosters, u \in Users : PostStart(p, u)
  \/ \E p \in 1..MaxPosters : PostFindConversation(p)
  \/ \E p \in 1..MaxPosters : PostInsertConversation(p)
  \/ \E p \in 1..MaxPosters : PostInsertMessage(p)

SpecPost == InitPost /\ [][NextPost]_vars

\* the group routes called by any users on any groups, one request at a time
InitGroups ==
  /\ InitTables /\ team_members = TwoMembers /\ exec = ExecIdle /\ other = ExecIdle
  /\ AuxInit

NextGroups ==
  \/ \E u \in Callers, valid \in BOOLEAN : CreateGroupRequest(u, valid)
  \/ CreateGroupInsert
  \/ CreateGroupAddCreator
  \/ CreateGroupRollback
  \/ \E u \in Callers, g \in DOMAIN group : JoinGroup(u, g)
  \/ \E u \in Callers, g \in DOMAIN group : CreateMessage(u, g)
  \/ \E u \in Callers, g \in DOMAIN group : GroupRequestOn("updateGroup", u, g)
  \/ GroupRole
  \/ \E name \in {"n0", "n1"} : UpdateGroupRow(name)
  \/ HandlerDone

SpecGroups == InitGroups /\ [][NextGroups]_vars

\* execute requests for one task of a team of one member that may overlap
InitRace ==
  /\ InitTables /\ AuxInit /\ exec = ExecIdle /\ other = ExecIdle
  /\ team_members = {MemberRow(1, "a1", "lead", TRUE)}

NextRace ==
  \/ \E u \in Users :
       exec.pc = "idle" /\ other.pc = "idle" /\ CreateTask(u, MaxRaceTasks)
  \/ CreateFetchMembers(PlainOutputs)
  \/ CreateInsertAssignment
  \/ CreateReturn
  \/ CreateDone
  \/ \E t \in 1..MaxRaceTasks, u \in Users : ExecStart(t, u, MaxRaceExecs)
  \/ ExecFetchTask
  \/ ExecFetchAssignments
  \/ ExecFetchMembers
  \/ ExecAgentStart
  \/ ExecAgentSubtask(PlainAgentOutcomes)
  \/ ExecSaveResult
  \/ ExecSaveContribution
  \/ ExecSynthesize(PlainSynthOutcomes)
  \/ ExecFinalUpdate
  \/ ExecCatch
  \/ ExecDone
  \/ Yield

SpecRace == InitRace /\ [][NextRace]_vars

\* tasks of a team of one member with versions, attachments and an execution,
\* and deleteTask calls by any users, one request at a time
InitDelete ==
  /\ InitTables /\ AuxInit /\ exec = ExecIdle /\ other = ExecIdle
  /\ team_members = {MemberRow(1, "a1", "lead", TRUE)}

NextDelete ==
  \/ \E u \in Users : exec.pc = "idle" /\ deleter.pc = "idle"
                         /\ CreateTask(u, MaxDeleteTasks)
  \/ \E u \in Users, t \in 1..MaxDeleteTasks :
       exec.pc = "idle" /\ deleter.pc = "idle"
         /\ CreateTaskVersion(u, t, MaxDeleteTasks)
  \/ CreateFetchMembers(PlainOutputs)
  \/ CreateInsertAssignment
  \/ CreateReturn
  \/ CreateDone
  \/ \E t \in DOMAIN collaborative_tasks : SaveTaskAttachment(t)
  \/ \E t \in 1..MaxDeleteTasks, u \in Users :
       deleter.pc = "idle" /\ ExecStart(t, u, MaxDeleteExecs)
  \/ ExecFetchTask
  \/ ExecFetchAssignments
  \/ ExecFetchMembers
  \/ ExecAgentStart
  \/ ExecAgentSubtask(PlainAgentOutcomes)
  \/ ExecSaveResult
  \/ ExecSaveContribution
  \/ ExecSynthesize(PlainSynthOutcomes)
  \/ ExecFinalUpdate
  \/ ExecCatch
  \/ ExecDone
  \/ \E t \in 1..MaxDeleteTasks, u \in Users : DeleteTaskStart(t, u)
  \/ DeleteTaskAssignments
  \/ DeleteTaskAttachments
  \/ DeleteTaskRow
  \/ DeleteTaskDone

SpecDelete == InitDelete /\ [][NextDelete]_vars

\* one user sending messages to one agent in one conversation, one at a time
InitHistory ==
  /\ InitTables /\ AuxInit /\ team_members = TwoMembers
  /\ exec = ExecIdle /\ other = ExecIdle

NextHistory ==
  \/ \E skipUserMessage \in BOOLEAN : SendMessage(skipUserMessage)
  \/ StoreBeforeChat
  \/ ChatLoadHistory
  \/ ChatBuildMessages
  \/ ChatReply

SpecHistory == InitHistory /\ [][NextHistory]_vars

\* the Collab page of one user who switches between two groups while
\* messages arrive
InitCollab ==
  /\ InitTables /\ AuxInit /\ team_members = TwoMembers
  /\ exec = ExecIdle /\ other = ExecIdle

NextCollab ==
  \/ \E g \in PageGroups : HandleSelectGroup(g)
  \/ \E e \in 1..MaxSelects : InitResolves(e)
  \/ \E g \in PageGroups : RealtimeInsert(g)

SpecCollab == InitCollab /\ [][NextCollab]_vars

(* ---------------------- properties ------------------------------------ *)
Last(s) == s[Len(s)]
TaskRows(taskId) == {a \in task_assignments : a.task_id = taskId}
TeamRows(teamId) == {m \in team_members : m.team_id = teamId}
ExecTaskExists == exec.taskId \in DOMAIN collaborative_tasks
ExecEndedWithError ==
  exec.pc = "done" /\ exec.events # <<>> /\ Last(exec.events) = "error"

\* C1: every run of executeCollaborativeTask that ends with an error event
\* leaves the task's status at PENDING when the response is closed.
C1_ErrorLeavesPending ==
  (ExecEndedWithError /\ ExecTaskExists)
    => collaborative_tasks[exec.taskId].status = "PENDING"

\* C2: a task's status changes only along PENDING -> IN_PROGRESS,
\* IN_PROGRESS -> COMPLETED and IN_PROGRESS -> PENDING.
AllowedTransitions ==
  {<<"PENDING", "IN_PROGRESS">>, <<"IN_PROGRESS", "COMPLETED">>,
   <<"IN_PROGRESS", "PENDING">>}
C2_OnlyListedTransitions ==
  [][\A t \in DOMAIN collaborative_tasks :
       \/ collaborative_tasks'[t].status = collaborative_tasks[t].status
       \/ <<collaborative_tasks[t].status, collaborative_tasks'[t].status>>
            \in AllowedTransitions]_vars

\* C3: a task reaches COMPLETED only if the provider call of every one of its
\* assignments succeeded: once such a call has failed during an execution, the
\* failing assignment is not marked COMPLETED, no complete event is sent, and
\* the execution ends with the task back at PENDING.
C3_FailedCallRollsBack ==
  \A k \in 1..Len(exec.calls) :
    (~exec.calls[k].ok /\ ExecTaskExists)
      => /\ \A a \in TaskRows(exec.taskId) :
              a.execution_order = exec.calls[k].order => a.status # "COMPLETED"
         /\ "complete" \notin Range(exec.events)
         /\ exec.pc = "done"
              => collaborative_tasks[exec.taskId].status = "PENDING"

\* C4: when an execution failed and the task is back at PENDING, no assignment
\* of the task is COMPLETED or IN_PROGRESS and no agent_contributions row
\* written by that execution remains.
C4_NoPartialResults ==
  (ExecEndedWithError /\ ExecTaskExists
     /\ collaborative_tasks[exec.taskId].status = "PENDING")
    => /\ \A a \in TaskRows(exec.taskId) : a.status \notin {"COMPLETED", "IN_PROGRESS"}
       /\ \A i \in 1..Len(agent_contributions) : agent_contributions[i].exec # exec.n

\* C5: a createCollaborativeTask call that succeeds has created exactly one
\* assignment for each member row of the team and none for another agent,
\* with execution_order values 1..n, whatever the decomposition returned.
C5_OneAssignmentPerMember ==
  (creator.pc = "done" /\ creator.outcome = "ok")
    => LET rows == TaskRows(creator.taskId)
           members == TeamRows(creator.teamId)
       IN /\ Cardinality(rows) = Cardinality(members)
          /\ \A a \in {r.agent_id : r \in rows} \cup {m.agent_id : m \in members} :
               Cardinality({r \in rows : r.agent_id = a})
                 = Cardinality({m \in members : m.agent_id = a})
          /\ {r.execution_order : r \in rows} = 1..Cardinality(members)
          /\ \A r1, r2 \in rows :
               r1.execution_order = r2.execution_order => r1 = r2

\* a call succeeded on a team of two although the array named only one of them
C5_Witness ==
  /\ creator.pc = "done" /\ creator.outcome = "ok"
  /\ Cardinality(TeamRows(creator.teamId)) = 2
  /\ \E r1, r2 \in TaskRows(creator.taskId) :
       /\ r1.subtask_description \in {"d1", "d2"}
       /\ r2.subtask_description \in {DefaultDescription(m.role) : m \in team_members}

\* C6: whenever no create call is under way, every task has as many
\* task_assignments rows as its team has team_members rows.
C6_AssignmentCountIsMemberCount ==
  creator.pc = "idle"
    => \A t \in DOMAIN collaborative_tasks :
         Cardinality(TaskRows(t))
           = Cardinality(TeamRows(collaborative_tasks[t].team_id))

\* C7: during an execution, the assignment being processed was started only
\* after every earlier one was marked COMPLETED and had its contribution
\* stored, and at most one assignment of the task is IN_PROGRESS.
C7_OneAtATime ==
  (exec.pc \notin {"idle", "done"})
    => /\ exec.pc \in {"subtask", "save", "contribution"}
            => \A j \in 1..(exec.idx - 1) :
                 /\ \E a \in TaskRows(exec.taskId) :
                      a.id = exec.assignments[j].id /\ a.status = "COMPLETED"
                 /\ \E i \in 1..Len(agent_contributions) :
                      /\ agent_contributions[i].exec = exec.n
                      /\ agent_contributions[i].agent_id = exec.assignments[j].agent_id
       /\ Cardinality({a \in TaskRows(exec.taskId) : a.status = "IN_PROGRESS"}) <= 1

\* C8: the previous contributions given to the agent of the k-th assignment
\* are the results of assignments 1..k-1 of the same execution, in order, and
\* the synthesis receives the results of all assignments in that order.
ResultsOf(contributions) ==
  [i \in 1..Len(contributions) |->
     <<contributions[i].agentName, contributions[i].result>>]
ResultsOfCalls(k) ==
  [j \in 1..k |-> <<exec.assignments[j].agents.name, exec.calls[j].result>>]
C8_ContextIsEarlierResults ==
  /\ \A k \in 1..Len(exec.calls) :
       /\ exec.calls[k].order = exec.assignments[k].execution_order
       /\ ResultsOf(exec.calls[k].prompt.context) = ResultsOfCalls(k - 1)
  /\ exec.synthesized
       => /\ Len(exec.calls) = Len(exec.assignments)
          /\ ResultsOf(exec.synth) = ResultsOfCalls(Len(exec.calls))

\* a synthesis over two assignments whose results differ
C8_Witness ==
  /\ exec.synthesized
  /\ Len(exec.calls) = 2
  /\ exec.calls[1].result # exec.calls[2].result
  /\ Len(exec.calls[2].prompt.context) = 1

\* C9: the prompt sent for an assignment contains that assignment's stored
\* subtask description, the name of its agent and the agent's role in the team.
C9_PromptNamesOwnSubtask ==
  \A k \in 1..Len(exec.calls) :
    LET a == exec.assignments[k]
        prompt == exec.calls[k].prompt
    IN /\ prompt.subtask = a.subtask_description
       /\ prompt.name = a.agents.name
       /\ prompt.role = RoleOf(exec.roleMap, a.agent_id)

Family(root) ==
  {t \in DOMAIN collaborative_tasks :
     t = root \/ collaborative_tasks[t].parent_task_id = root}
LookupsSucceeded(root) ==
  \A v \in Family(root) \ {root} : collaborative_tasks[v].version_number # 1
C11_VersionsLinear ==
  \A t \in DOMAIN collaborative_tasks :
    LET p == collaborative_tasks[t].parent_task_id
    IN IF p # 0
       THEN /\ p \in DOMAIN collaborative_tasks
            /\ collaborative_tasks[p].parent_task_id = 0
       ELSE LookupsSucceeded(t)
              => /\ {collaborative_tasks[v].version_number : v \in Family(t)}
                      = 1..Cardinality(Family(t))
                 /\ \A v, w \in Family(t) :
                      collaborative_tasks[v].version_number
                        = collaborative_tasks[w].version_number => v = w

C20_OnlyOwnerChangesMembers ==
  [][\A u \in Users :
       (/\ u # teams[TeamId].user_id
        /\ \/ \E a \in AgentIds : AddTeamMember(u, a, "qa", FALSE)
           \/ \E m \in 1..(2 + MaxMemberOps) : RemoveTeamMember(u, m))
         => team_members' = team_members]_vars

\* C13: the feedback stored on a task is always one of -1, 0, 1.
C13_FeedbackInRange ==
  \A t \in DOMAIN feedback : feedback[t] \in {-1, 0, 1}

\* C14: the events of an execution are: status; for each assignment in turn
\* agent_start, possibly agent_stream, agent_complete; synthesis; complete -
\* or a beginning of that cut short by one error event.  Exactly one of
\* complete and error is written, nothing after it, and the response is then
\* ended.
EventStep(st, e) ==
  CASE st = "init" /\ e = "status" -> "loop"
    [] st = "loop" /\ e = "agent_start" -> "started"
    [] st = "started" /\ e = "agent_stream" -> "streamed"
    [] st \in {"started", "streamed"} /\ e = "agent_complete" -> "loop"
    [] st = "loop" /\ e = "synthesis" -> "synth"
    [] st = "synth" /\ e = "complete" -> "end"
    [] st \notin {"end", "bad"} /\ e = "error" -> "end"
    [] OTHER -> "bad"
RECURSIVE StreamStateFrom(_, _)
StreamStateFrom(events, st) ==
  IF events = <<>> THEN st
  ELSE StreamStateFrom(Tail(events), EventStep(st, Head(events)))
StreamState(events) == StreamStateFrom(events, "init")
CountOf(events, e) == Cardinality({i \in 1..Len(events) : events[i] = e})
C14_EventStreamForm ==
  LET st == StreamState(exec.events)
  IN /\ st # "bad"
     /\ exec.pc = "done" => (st = "end" /\ exec.ended)
     /\ st = "end" => (exec.pc = "done" /\ exec.ended)
     /\ CountOf(exec.events, "agent_start") <= Len(exec.assignments)
     /\ \A k \in 1..Len(exec.calls) :
          exec.calls[k].order = exec.assignments[k].execution_order
     /\ (exec.events # <<>> /\ Last(exec.events) = "complete")
          => /\ CountOf(exec.events, "agent_complete") = Len(exec.assignments)
             /\ Len(exec.assignments) = Cardinality(TaskRows(exec.taskId))

\* an execution of two assignments ran to its complete event, one agent
\* having streamed and the other not
C14_Witness ==
  /\ exec.pc = "done"
  /\ Last(exec.events) = "complete"
  /\ Len(exec.assignments) = 2
  /\ CountOf(exec.events, "agent_stream") = 1

\* C15: an LLM step makes at most two provider calls; the second is made only
\* after the first failed with a model-related error, asks for the hardcoded
\* fallback model, and when it fails the step fails without another call.
C15_AtMostOneFallback ==
  /\ Len(llm.log) <= 2
  /\ llm.pc \in {"fallback", "returned", "thrown"} => Len(llm.log) >= 1
  /\ llm.pc = "fallback" => Len(llm.log) = 1 /\ llm.log[1].kind = "model_error"
  /\ Len(llm.log) = 2
       => /\ llm.log[1].kind = "model_error"
          /\ llm.log[2].model
               = (IF llm.step = "subtask" THEN "gpt-4o-mini" ELSE "gpt-3.5-turbo")
          /\ llm.pc = (IF llm.log[2].kind = "ok" THEN "returned" ELSE "thrown")

\* a step whose fallback call failed too
C15_Witness ==
  /\ llm.pc = "thrown"
  /\ Len(llm.log) = 2
  /\ llm.log[2].kind = "model_error"

\* C16: every error response of a route handler has a JSON body with
\* success: false and an error field.
C16_ErrorBodyShape ==
  \A i \in 1..Len(handler.sent) :
    handler.sent[i].status >= 400
      => /\ "error" \in DOMAIN handler.sent[i].body
         /\ "success" \in DOMAIN handler.sent[i].body
         /\ handler.sent[i].body.success = FALSE

\* C17: a chat response that has begun with meta consists of meta, init, any
\* number of token events, and then exactly one of done and error before the
\* response is ended.
ChatEventStep(st, e) ==
  CASE st = "none" /\ e = "meta" -> "meta"
    [] st = "meta" /\ e = "init" -> "tokens"
    [] st = "tokens" /\ e = "token" -> "tokens"
    [] st = "tokens" /\ e \in {"done", "error"} -> "end"
    [] OTHER -> "bad"
RECURSIVE ChatStreamStateFrom(_, _)
ChatStreamStateFrom(events, st) ==
  IF events = <<>> THEN st
  ELSE ChatStreamStateFrom(Tail(events), ChatEventStep(st, Head(events)))
C17_ChatStreamEndsWithTerminal ==
  \A c \in 1..MaxChats :
    LET st == ChatStreamStateFrom(chats[c].events, "none")
    IN /\ st # "bad"
       /\ (chats[c].ended /\ chats[c].events # <<>>) => st = "end"
       /\ st = "end" => chats[c].ended

\* C18: every row of messages has a role that is user, assistant or system.
C18_MessageRoles ==
  \A i \in 1..Len(messages) : messages[i].role \in {"user", "assistant", "system"}

\* C19: when no chat is under way, the interaction count of the agent is the
\* number of chats that completed (wrote done).  Chats whose metrics queries
\* failed are left aside: the statement is about the counting the code does
\* when every query succeeds.
C19_InteractionCountExact ==
  (/\ \A c \in 1..MaxChats : chats[c].pc \in {"idle", "finished"}
   /\ \A c \in 1..MaxChats : ~chats[c].metricsError)
    => metrics["a1"]
         = Cardinality({c \in 1..MaxChats : "done" \in Range(chats[c].events)})

\* C21: an execute request by a user who is not the creator of the task
\* changes no row of the task (status, result, assignments, contributions)
\* and writes nothing but an error event
C21_NonCreatorChangesNothing ==
  [][(/\ exec'.pc # "idle"
      /\ exec'.taskId \in DOMAIN collaborative_tasks
      /\ collaborative_tasks[exec'.taskId].user_id # exec'.userId
      /\ Cardinality(TaskRows(exec'.taskId)) = Cardinality(TeamRows(TeamId)))
     => /\ UNCHANGED dbVars
        /\ Range(exec'.events) \subseteq {"error"}]_vars

\* C22: after any interleaving of POST /api/conversations/message requests
\* without conversationId for one agent, the agent has at most one
\* conversation created by the route and all the messages are in it
C22_OneConversationPerAgent ==
  (\A p \in 1..MaxPosters : ~posts[p].lookupError)
    => /\ Len(conversations) <= 1
       /\ \A i, j \in 1..Len(messages) :
            messages[i].conversation_id = messages[j].conversation_id

\* C23: when createGroup has answered, a group row it inserted that still
\* exists has its creator in group_members with role Owner; when the insert
\* of the creator failed the row is gone and the response is an error
C23_CreatedGroupHasOwner ==
  (handler.name = "createGroup" /\ handler.pc = "responded"
     /\ handler.groupId # "none")
    => IF [group_id |-> handler.groupId, id |-> handler.userId, role |-> "Owner"]
            \in group_members
       THEN handler.groupId \in DOMAIN group
       ELSE /\ handler.groupId \notin DOMAIN group
            /\ handler.sent[1].status >= 400

\* C29: in every reachable state the creator of a group, once recorded as its
\* Owner, passes the role check of deleteGroup and updateGroup, and whoever
\* passes it holds role Owner in the group
C29_CreatorStaysAuthorised ==
  \A g \in DOMAIN group, u \in Users :
    LET owner == [group_id |-> g, id |-> u, role |-> "Owner"]
    IN /\ (group[g].creator = u /\ owner \in group_members) => GroupAuthorised(g, u)
       /\ GroupAuthorised(g, u) => owner \in group_members

\* C24: the first provider call made for an assignment asks for the model
\* configured on the assignment's agent, and for gpt-4o-mini only when the
\* agent has no model configured
C24_CallUsesAgentModel ==
  Cardinality(TaskRows(exec.taskId)) = Cardinality(TeamRows(TeamId))
    => \A k \in 1..Len(exec.calls) :
         LET configured == Prop(agents[exec.calls[k].agent].configuration, "model")
         IN exec.calls[k].model =
              IF configured \in {Undefined, Null} THEN "gpt-4o-mini" ELSE configured

\* C25: a task in status COMPLETED has exactly one agent_contributions row
\* for each of its assignments, whatever executions came before
C25_OneContributionPerAssignment ==
  \A t \in DOMAIN collaborative_tasks :
    (/\ collaborative_tasks[t].status = "COMPLETED"
     /\ Cardinality(TaskRows(t)) = Cardinality(TeamRows(TeamId)))
      => \A a \in TaskRows(t) :
           Cardinality({i \in 1..Len(agent_contributions) :
                          /\ agent_contributions[i].task_id = t
                          /\ agent_contributions[i].agent_id = a.agent_id}) = 1

\* a request that has found its task and has not ended nor failed
Executing(e) ==
  e.pc \in {"assignments", "members", "start", "subtask", "save", "contribution",
            "synthesis", "final"}

\* C26: while one execution of a task is in progress, no step that a later
\* request for the same task takes without an error of its own changes the
\* task's status, an assignment or the contributions
C26_OneExecutionAtATime ==
  [][(/\ Executing(other)
      /\ other' = other
      /\ exec'.pc \notin {"idle", "catch"}
      /\ exec.pc # "catch"
      /\ exec'.n > other.n
      /\ exec'.taskId = other.taskId
      /\ Cardinality(TaskRows(other.taskId)) = Cardinality(TeamRows(TeamId)))
     => UNCHANGED <<collaborative_tasks, task_assignments, agent_contributions>>]_vars

\* C27: when deleteTask has succeeded no row refers to the task (no
\* assignment, attachment or contribution, no task with it as parent); when
\* it has failed the task and the rows it had are all still there
C27_DeleteTaskAllOrNothing ==
  (deleter.pc = "done" /\ deleter.existed)
    => LET t == deleter.taskId
           attachments == {a \in task_attachments : a.task_id = t}
       IN IF deleter.outcome = "ok"
          THEN /\ t \notin DOMAIN collaborative_tasks
               /\ TaskRows(t) = {}
               /\ attachments = {}
               /\ \A i \in 1..Len(agent_contributions) :
                    agent_contributions[i].task_id # t
               /\ \A x \in DOMAIN collaborative_tasks :
                    collaborative_tasks[x].parent_task_id # t
          ELSE /\ t \in DOMAIN collaborative_tasks
               /\ TaskRows(t) = deleter.hadAssignments
               /\ attachments = deleter.hadAttachments

\* C28: the messages chatWithAgent builds for the model are the system
\* prompt, the last 14 (or all, if fewer) of the messages the conversation
\* held before the current one, in their order, and the current user message
\* as last element and nowhere else
C28_CurrentMessageOnce ==
  turn.pc = "stream"
    => LET list == turn.messagesForModel
           earlier == [i \in 1..Len(turn.before) |-> RoleContent(turn.before[i])]
           current == [role |-> "user", content |-> turn.message]
       IN /\ list = <<SystemMessage>> \o SliceLast(earlier, HistoryLimit) \o <<current>>
          /\ Cardinality({i \in 1..Len(list) : list[i] = current}) = 1

\* C30: once every message load has completed and the one of the selected
\* group has succeeded, the page shows only messages of the selected group and
\* exactly one channel is subscribed, the one of that group
C30_OnlySelectedGroupShown ==
  (/\ page.selectedGroupId # NoGroup
   /\ \A e \in 1..Len(page.effects) : page.effects[e].pc # "loading"
   /\ page.effects[Len(page.effects)].pc = "subscribed")
    => /\ \A m \in page.messages : m.group_id = page.selectedGroupId
       /\ Cardinality(page.channels) = 1
       /\ \A c \in page.channels : page.effects[c].groupId = page.selectedGroupId

====
